---- MODULE Spec2Model ----
(***************************************************************************)
(* Model of the conversation turn pipeline of the Modern assistant:        *)
(*   - POST /api/messages/:conversationId?   (server/routes.ts)            *)
(*   - generateAIResponse, enrichContextWithBusinessData, containsArabic   *)
(*     (server/openai.ts)                                                  *)
(*   - DatabaseStorage (server/storage.ts)                                 *)
(*   - broadcast, GET /api/messages/..., the Gmail and Calendar routes     *)
(*     (server/routes.ts) and getAccessToken (server/gmail.ts,             *)
(*     server/googleCalendar.ts)                                           *)
(*   - the routes that create conversations, tasks and knowledge entries,  *)
(*     PATCH /api/tasks/:id and the two DELETE routes (server/routes.ts)   *)
(*   - the chat page and its ChatInterface (client/src/pages/chat-page.tsx,*)
(*     client/src/components/chat-interface.tsx)                           *)
(*                                                                         *)
(* A text is a sequence of UTF-16 code units (natural numbers), which is   *)
(* what String.prototype.slice, .length and .includes work on.  A prompt   *)
(* is a sequence of segments, one per fragment of the template literal     *)
(* that builds it: a literal fragment is named by its kind, an             *)
(* interpolated value carries its text.                                    *)
(***************************************************************************)
EXTENDS Integers, Sequences, FiniteSets, TLC

(***************************************************************************)
(* Bounds of the model and constants of the program.                       *)
(***************************************************************************)
\* Number of chat turns (requests to POST /api/messages) that are started.
MaxTurns == 2

\* routes.ts:105  content.slice(0, 50) + (content.length > 50 ? "..." : "")
TitleLimit == 50

Turns == 1..MaxTurns

(***************************************************************************)
(* Texts.                                                                  *)
(***************************************************************************)
Empty == << >>

\* "..." appended to a truncated title
Ellipsis == <<46, 46, 46>>

\* String.prototype.slice(0, n)
Slice0(s, n) == SubSeq(s, 1, IF Len(s) < n THEN Len(s) ELSE n)

\* String.prototype.includes(sub); text is the receiver, evaluated once
Includes(s, sub) ==
    \E text \in {s} :
        \E i \in 1..(Len(text) - Len(sub) + 1) : SubSeq(text, i, i + Len(sub) - 1) = sub

\* openai.ts:25  userMessage.toLowerCase(), as far as a keyword can see
\* it: the code unit u of the message becomes the one code unit c, a
\* lower-case ASCII letter, exactly if u is c, the capital of c, or (for
\* "k") U+212A KELVIN SIGN.  No other code point has a lower case with an
\* ASCII letter in it but U+0130, whose lower case is "i" followed by
\* U+0307; the Final_Sigma rule, the one rule that looks at the
\* neighbours of a letter, produces U+03C2 or U+03C3 only.
LowersTo(u, c) ==
    \/ u = c
    \/ c >= 97 /\ c <= 122 /\ u = c - 32
    \/ c = 107 /\ u = 8490

\* openai.ts:28, 48  lowerMessage.includes(keyword), for a keyword of these
\* lines: lower-case ASCII letters, none of them ending in "i", so that
\* the "i" that comes from U+0130 with its U+0307 is in no match; every
\* other unit of lowerMessage comes from the unit of userMessage at its
\* place.  text is the message, evaluated once.
lowerMessageIncludes(userMessage, keyword) ==
    \E text \in {userMessage} :
        \E i \in 1..(Len(text) - Len(keyword) + 1) :
            \A j \in 1..Len(keyword) : LowersTo(text[i + j - 1], keyword[j])

\* one code unit against the character class of arabicRegex
ArabicUnit(c) ==
    \/ c >= 1536 /\ c <= 1791       \* U+0600-U+06FF
    \/ c >= 1872 /\ c <= 1919       \* U+0750-U+077F
    \/ c >= 2208 /\ c <= 2303       \* U+08A0-U+08FF
    \/ c >= 64336 /\ c <= 65023     \* U+FB50-U+FDFF
    \/ c >= 65136 /\ c <= 65279     \* U+FE70-U+FEFF

\* containsArabic(text): arabicRegex.test(text)
containsArabic(text) == \E i \in 1..Len(text) : ArabicUnit(text[i])

\* the keyword tables of enrichContextWithBusinessData
KwEmail == <<101, 109, 97, 105, 108>>
KwMail == <<109, 97, 105, 108>>
KwInbox == <<105, 110, 98, 111, 120>>
KwArBarid == <<1576, 1585, 1610, 1583>>
KwArRasael == <<1585, 1587, 1575, 1574, 1604>>
KwArEmail == <<1573, 1610, 1605, 1610, 1604>>
KwCalendar == <<99, 97, 108, 101, 110, 100, 97, 114>>
KwMeeting == <<109, 101, 101, 116, 105, 110, 103>>
KwSchedule == <<115, 99, 104, 101, 100, 117, 108, 101>>
KwEvent == <<101, 118, 101, 110, 116>>
KwArTaqwim == <<1578, 1602, 1608, 1610, 1605>>
KwArIjtimaa == <<1575, 1580, 1578, 1605, 1575, 1593>>
KwArMawid == <<1605, 1608, 1593, 1583>>
KwArJadwal == <<1580, 1583, 1608, 1604>>

\* IsEmailIntent matching the Latin keywords on the message as written
IsEmailIntentAsWritten(userMessage) ==
    \/ Includes(userMessage, KwEmail)
    \/ Includes(userMessage, KwMail)
    \/ Includes(userMessage, KwInbox)
    \/ Includes(userMessage, KwArBarid)
    \/ Includes(userMessage, KwArRasael)
    \/ Includes(userMessage, KwArEmail)

\* openai.ts:28-29: the Latin keywords are matched on the lower-cased
\* message, the Arabic ones on the message as written
IsEmailIntent(userMessage) ==
    \/ lowerMessageIncludes(userMessage, KwEmail)
    \/ lowerMessageIncludes(userMessage, KwMail)
    \/ lowerMessageIncludes(userMessage, KwInbox)
    \/ Includes(userMessage, KwArBarid)
    \/ Includes(userMessage, KwArRasael)
    \/ Includes(userMessage, KwArEmail)

\* openai.ts:48-49
IsCalendarIntent(userMessage) ==
    \/ lowerMessageIncludes(userMessage, KwCalendar)
    \/ lowerMessageIncludes(userMessage, KwMeeting)
    \/ lowerMessageIncludes(userMessage, KwSchedule)
    \/ lowerMessageIncludes(userMessage, KwEvent)
    \/ Includes(userMessage, KwArTaqwim)
    \/ Includes(userMessage, KwArIjtimaa)
    \/ Includes(userMessage, KwArMawid)
    \/ Includes(userMessage, KwArJadwal)

\* TitleOf with the ellipsis test written >= instead of >
TitleOfAtLimit(content) ==
    Slice0(content, TitleLimit) \o (IF Len(content) >= TitleLimit THEN Ellipsis ELSE Empty)

\* routes.ts:105: the title of a conversation created by a turn
TitleOf(content) ==
    Slice0(content, TitleLimit) \o (IF Len(content) > TitleLimit THEN Ellipsis ELSE Empty)

(***************************************************************************)
(* Fixed strings of the program.                                           *)
(***************************************************************************)
\* openai.ts:94, the Arabic default of customInstructions
DefaultInstructionsAr ==
    <<1571, 1606, 1578, 32, 1605, 1587, 1575, 1593, 1583, 32, 1584, 1603,
      1610, 32, 1605, 1578, 1582, 1589, 1589, 32, 1601, 1610, 32, 1605, 1587,
      1575, 1593, 1583, 1577, 32, 1575, 1604, 1588, 1585, 1603, 1575, 1578,
      46, 32, 1578, 1578, 1593, 1604, 1605, 32, 1605, 1606, 32, 1575, 1604,
      1605, 1581, 1575, 1583, 1579, 1575, 1578, 32, 1575, 1604, 1587, 1575,
      1576, 1602, 1577, 32, 1608, 1578, 1578, 1584, 1603, 1585, 32, 1603,
      1604, 32, 1588, 1610, 1569, 46, 32, 1587, 1575, 1593, 1583, 32, 1575,
      1604, 1605, 1587, 1578, 1582, 1583, 1605, 32, 1576, 1591, 1585, 1610,
      1602, 1577, 32, 1575, 1581, 1578, 1585, 1575, 1601, 1610, 1577, 32,
      1608, 1605, 1606, 1592, 1605, 1577, 46>>

\* openai.ts:95, the English default of customInstructions
DefaultInstructionsEn ==
    <<89, 111, 117, 32, 97, 114, 101, 32, 97, 110, 32, 105, 110, 116, 101,
      108, 108, 105, 103, 101, 110, 116, 32, 97, 115, 115, 105, 115, 116, 97,
      110, 116, 32, 115, 112, 101, 99, 105, 97, 108, 105, 122, 101, 100, 32,
      105, 110, 32, 104, 101, 108, 112, 105, 110, 103, 32, 98, 117, 115, 105,
      110, 101, 115, 115, 101, 115, 46, 32, 89, 111, 117, 32, 108, 101, 97,
      114, 110, 32, 102, 114, 111, 109, 32, 112, 114, 101, 118, 105, 111,
      117, 115, 32, 99, 111, 110, 118, 101, 114, 115, 97, 116, 105, 111, 110,
      115, 32, 97, 110, 100, 32, 114, 101, 109, 101, 109, 98, 101, 114, 32,
      101, 118, 101, 114, 121, 116, 104, 105, 110, 103, 46, 32, 72, 101, 108,
      112, 32, 116, 104, 101, 32, 117, 115, 101, 114, 32, 105, 110, 32, 97,
      32, 112, 114, 111, 102, 101, 115, 115, 105, 111, 110, 97, 108, 32, 97,
      110, 100, 32, 111, 114, 103, 97, 110, 105, 122, 101, 100, 32, 109, 97,
      110, 110, 101, 114, 46>>

\* openai.ts:97, "Modern"
DefaultAssistantName ==
    <<77, 111, 100, 101, 114, 110>>

\* openai.ts:151, the reply substituted for an empty or missing completion
ApologyReply ==
    <<73, 32, 97, 112, 111, 108, 111, 103, 105, 122, 101, 44, 32, 98, 117,
      116, 32, 73, 32, 99, 111, 117, 108, 100, 110, 39, 116, 32, 103, 101,
      110, 101, 114, 97, 116, 101, 32, 97, 32, 114, 101, 115, 112, 111, 110,
      115, 101, 32, 97, 116, 32, 116, 104, 105, 115, 32, 116, 105, 109, 101,
      46>>

\* openai.ts:156
RateLimitFallback ==
    <<73, 39, 109, 32, 101, 120, 112, 101, 114, 105, 101, 110, 99, 105, 110,
      103, 32, 104, 105, 103, 104, 32, 100, 101, 109, 97, 110, 100, 32, 114,
      105, 103, 104, 116, 32, 110, 111, 119, 46, 32, 80, 108, 101, 97, 115,
      101, 32, 116, 114, 121, 32, 97, 103, 97, 105, 110, 32, 105, 110, 32,
      97, 32, 109, 111, 109, 101, 110, 116, 46>>

\* openai.ts:160
ConnectivityFallback ==
    <<73, 39, 109, 32, 104, 97, 118, 105, 110, 103, 32, 116, 114, 111, 117,
      98, 108, 101, 32, 99, 111, 110, 110, 101, 99, 116, 105, 110, 103, 32,
      116, 111, 32, 109, 121, 32, 65, 73, 32, 115, 101, 114, 118, 105, 99,
      101, 46, 32, 80, 108, 101, 97, 115, 101, 32, 116, 114, 121, 32, 97,
      103, 97, 105, 110, 32, 115, 104, 111, 114, 116, 108, 121, 46>>

\* openai.ts:163
GenericFallback ==
    <<73, 32, 97, 112, 111, 108, 111, 103, 105, 122, 101, 44, 32, 98, 117,
      116, 32, 73, 32, 101, 110, 99, 111, 117, 110, 116, 101, 114, 101, 100,
      32, 97, 110, 32, 101, 114, 114, 111, 114, 32, 119, 104, 105, 108, 101,
      32, 112, 114, 111, 99, 101, 115, 115, 105, 110, 103, 32, 121, 111, 117,
      114, 32, 114, 101, 113, 117, 101, 115, 116, 46, 32, 80, 108, 101, 97,
      115, 101, 32, 116, 114, 121, 32, 97, 103, 97, 105, 110, 46>>

\* openai.ts:155, '429'
Mark429 ==
    <<52, 50, 57>>

\* openai.ts:155, 'rate limit'
MarkRateLimit ==
    <<114, 97, 116, 101, 32, 108, 105, 109, 105, 116>>

\* openai.ts:159, 'timeout'
MarkTimeout ==
    <<116, 105, 109, 101, 111, 117, 116>>

\* openai.ts:159, 'ECONNREFUSED'
MarkRefused ==
    <<69, 67, 79, 78, 78, 82, 69, 70, 85, 83, 69, 68>>

(***************************************************************************)
(* Inputs: the texts a user submits, the replies and errors of the         *)
(* completion service, the data of the mail and calendar connectors.       *)
(***************************************************************************)
\* an Arabic question about new mail; it holds the mail keyword KwArBarid
TextArabicMail ==
    <<1576, 1585, 1610, 1583, 32, 1580, 1583, 1610, 1583, 1567>>

\* "Mail meeting": holds a mail keyword in upper case and a calendar keyword
TextMailMeeting ==
    <<77, 97, 105, 108, 32, 109, 101, 101, 116, 105, 110, 103>>

\* a text of exactly 50 code units, no keyword
TextFifty ==
    <<80, 108, 101, 97, 115, 101, 32, 115, 117, 109, 109, 97, 114, 105, 115,
      101, 32, 116, 104, 101, 32, 113, 117, 97, 114, 116, 101, 114, 108, 121,
      32, 115, 97, 108, 101, 115, 32, 114, 101, 112, 111, 114, 116, 32, 116,
      111, 100, 97, 121, 46>>

\* a text of 51 code units, no keyword
TextFiftyOne ==
    <<80, 108, 101, 97, 115, 101, 32, 115, 117, 109, 109, 97, 114, 105, 115,
      101, 32, 116, 104, 101, 32, 113, 117, 97, 114, 116, 101, 114, 108, 121,
      32, 115, 97, 108, 101, 115, 32, 114, 101, 112, 111, 114, 116, 115, 32,
      116, 111, 100, 97, 121, 46>>

\* a reply of the completion service
ReplyOk ==
    <<79, 75>>

\* error messages of the completion service
Msg429 ==
    <<52, 50, 57, 32, 84, 111, 111, 32, 77, 97, 110, 121, 32, 82, 101, 113,
      117, 101, 115, 116, 115>>

MsgTimeout ==
    <<82, 101, 113, 117, 101, 115, 116, 32, 116, 105, 109, 101, 111, 117,
      116>>

MsgBoth ==
    <<114, 97, 116, 101, 32, 108, 105, 109, 105, 116, 44, 32, 99, 111, 110,
      110, 101, 99, 116, 32, 69, 67, 79, 78, 78, 82, 69, 70, 85, 83, 69, 68>>

MsgOther ==
    <<98, 111, 111, 109>>

\* a calendar event and a mail
BoardSync ==
    <<66, 111, 97, 114, 100, 32, 83, 121, 110, 99>>

\* "Renamed"
TextRenamed ==
    <<82, 101, 110, 97, 109, 101, 100>>

Tomorrow ==
    <<50, 48, 50, 54, 45, 48, 49, 45, 48, 50, 84, 48, 57, 58, 48, 48, 58, 48,
      48, 90>>

Yesterday ==
    <<50, 48, 50, 53, 45, 49, 50, 45, 51, 49>>

RoomA ==
    <<82, 111, 111, 109, 32, 65>>

AddrAlice ==
    <<97, 108, 105, 99, 101, 64, 101, 120, 97, 109, 112, 108, 101, 46, 99,
      111, 109>>

AddrBob ==
    <<98, 111, 98, 64, 101, 120, 97, 109, 112, 108, 101, 46, 99, 111, 109>>

SubjectInvoice ==
    <<73, 110, 118, 111, 105, 99, 101>>

SnippetInvoice ==
    <<80, 108, 101, 97, 115, 101, 32, 102, 105, 110, 100, 32, 97, 116, 116,
      97, 99, 104, 101, 100>>

(***************************************************************************)
(* Prompt composition (openai.ts).                                         *)
(***************************************************************************)
\* a literal fragment of a template literal
Lit(name) == [k |-> name, v |-> Empty]

\* an interpolated text
Txt(s) == [k |-> "text", v |-> s]

\* `${n}`: the decimal digits of a non-negative integer
RECURSIVE Decimal(_)
Decimal(n) == IF n < 10 THEN <<48 + n>> ELSE Decimal(n \div 10) \o <<48 + (n % 10)>>

\* openai.ts:39, one entry of the numbered list of recent emails
EmailItem(i, email) ==
    << Txt(Decimal(i)), Lit(". From: "), Txt(email.from),
       Lit("<nl>   Subject: "), Txt(email.subject),
       Lit("<nl>   Date: "), Txt(email.date),
       Lit("<nl>   Snippet: "), Txt(email.snippet), Lit("<nl><nl>") >>

RECURSIVE EmailItems(_, _)
EmailItems(emails, i) ==
    IF i > Len(emails) THEN << >>
    ELSE EmailItem(i, emails[i]) \o EmailItems(emails, i + 1)

\* openai.ts:35-40
EmailBlock(emails, unreadCount) ==
    << Lit("<nl><nl>Recent Email Context:<nl>"),
       Lit("You have "), Txt(Decimal(unreadCount)), Lit(" unread emails.<nl>"),
       Lit("Recent emails:<nl>") >> \o EmailItems(emails, 1)

\* openai.ts:59-64, one entry of the numbered list of events
EventItem(i, event) ==
    << Txt(Decimal(i)), Lit(". "), Txt(event.summary),
       Lit("<nl>   When: "), Txt(event.start), Lit("<nl>") >>
    \o (IF event.location # Empty
        THEN << Lit("   Where: "), Txt(event.location), Lit("<nl>") >>
        ELSE << >>)
    \o (IF Len(event.attendees) > 0
        THEN << Lit("   Attendees: "), Txt(Decimal(Len(event.attendees))),
                Lit(" people<nl>") >>
        ELSE << >>)
    \o << Lit("<nl>") >>

RECURSIVE EventItems(_, _)
EventItems(events, i) ==
    IF i > Len(events) THEN << >>
    ELSE EventItem(i, events[i]) \o EventItems(events, i + 1)

\* openai.ts:54-66
CalendarBlock(events) ==
    << Lit("<nl><nl>Upcoming Calendar Events:<nl>") >>
    \o (IF Len(events) = 0
        THEN << Lit("No upcoming events in the next 7 days.<nl>") >>
        ELSE EventItems(events, 1))

(* What the mail connector does in one enrichment: listMessages(5) returns   *)
(* or throws, and then getUnreadCount() returns or throws.  What the         *)
(* calendar connector does: getUpcomingEvents(7) returns or throws.  "none"  *)
(* stands for a call that was not made or has not settled, "pending" for a   *)
(* listMessages that has its list and awaits the messages.                   *)
EmailOutcome(list, emails, count, unread) ==
    [list |-> list, emails |-> emails, count |-> count, unread |-> unread]

CalendarOutcome(list, events) == [list |-> list, events |-> events]

NoEmailCall == EmailOutcome("none", << >>, "none", 0)

NoCalendarCall == CalendarOutcome("none", << >>)

\* EmailContext appending the header as soon as listMessages has returned
EmailContextPartial(em) ==
    IF em.list = "ok" /\ em.count = "ok" THEN EmailBlock(em.emails, em.unread)
    ELSE IF em.list = "ok" THEN << Lit("<nl><nl>Recent Email Context:<nl>") >>
    ELSE << >>

\* openai.ts:30-44: the block is added only after both calls have returned
EmailContext(em) ==
    IF em.list = "ok" /\ em.count = "ok" THEN EmailBlock(em.emails, em.unread) ELSE << >>

\* openai.ts:50-70
CalendarContext(cal) ==
    IF cal.list = "ok" THEN CalendarBlock(cal.events) ELSE << >>

\* enrichContextWithBusinessData with one try/catch around both fetches: a
\* failure of the mail connector drops the calendar block too
enrichContextOneTry(userMessage, em, cal) ==
    IF userMessage = Empty THEN << >>
    ELSE IF IsEmailIntent(userMessage) /\ ~(em.list = "ok" /\ em.count = "ok") THEN << >>
    ELSE (IF IsEmailIntent(userMessage) THEN EmailContext(em) ELSE << >>)
         \o (IF IsCalendarIntent(userMessage) THEN CalendarContext(cal) ELSE << >>)

\* openai.ts:18-74
enrichContextWithBusinessData(userMessage, em, cal) ==
    IF userMessage = Empty THEN << >>
    ELSE (IF IsEmailIntent(userMessage) THEN EmailContext(em) ELSE << >>)
         \o (IF IsCalendarIntent(userMessage) THEN CalendarContext(cal) ELSE << >>)

\* latestUserMessage taking the first user message ([0]) instead of the last
firstUserMessage(msgs) ==
    LET users == SelectSeq(msgs, LAMBDA m : m.role = "user")
    IN  IF users = << >> THEN Empty ELSE users[1].content

\* openai.ts:81  messages.filter(m => m.role === 'user').slice(-1)[0]?.content || ''
latestUserMessage(msgs) ==
    LET users == SelectSeq(msgs, LAMBDA m : m.role = "user")
    IN  IF users = << >> THEN Empty ELSE users[Len(users)].content

\* openai.ts:93-95
customInstructions(settings, isArabic) ==
    IF settings.systemInstructions # Empty THEN settings.systemInstructions
    ELSE IF isArabic THEN DefaultInstructionsAr ELSE DefaultInstructionsEn

\* openai.ts:97
assistantName(settings) ==
    IF settings.assistantName # Empty THEN settings.assistantName
    ELSE DefaultAssistantName

\* openai.ts:99-133: the two templates
baseSystemMessage(settings, isArabic) ==
    IF isArabic
    THEN << Lit("ar:head"), Txt(assistantName(settings)),
            Lit("ar:instructions"), Txt(customInstructions(settings, isArabic)),
            Lit("ar:capabilities") >>
    ELSE << Lit("en:head"), Txt(assistantName(settings)),
            Lit("en:instructions"), Txt(customInstructions(settings, isArabic)),
            Lit("en:capabilities") >>

\* fullSystemMessage without the "systemContext ||" of openai.ts:135
fullSystemMessageNoOverride(settings, isArabic, systemContext, businessContext) ==
    IF businessContext # << >>
    THEN baseSystemMessage(settings, isArabic) \o << Lit("<nl><nl>") >> \o businessContext
    ELSE baseSystemMessage(settings, isArabic)

\* openai.ts:135-138; systemContext is Empty when the caller passes none
fullSystemMessage(settings, isArabic, systemContext, businessContext) ==
    LET systemMessage == IF systemContext # Empty THEN << Txt(systemContext) >>
                         ELSE baseSystemMessage(settings, isArabic)
    IN  IF businessContext # << >>
        THEN systemMessage \o << Lit("<nl><nl>") >> \o businessContext
        ELSE systemMessage

(***************************************************************************)
(* The completion call and its failures (openai.ts:140-164).               *)
(***************************************************************************)
\* a response: flag = a first choice exists, text = its content ('' or null
\* is Empty); an error: flag = it has a message, text = the message
Reply(text) == [kind |-> "reply", flag |-> TRUE, text |-> text]

NoChoices == [kind |-> "reply", flag |-> FALSE, text |-> Empty]

Throw(message) == [kind |-> "throw", flag |-> TRUE, text |-> message]

ThrowNoMessage == [kind |-> "throw", flag |-> FALSE, text |-> Empty]

NoOutcome == [kind |-> "none", flag |-> FALSE, text |-> Empty]

\* IsRateLimit with the test of '429' alone
IsRateLimitCodeOnly(error) ==
    error.flag /\ Includes(error.text, Mark429)

\* openai.ts:155
IsRateLimit(error) ==
    error.flag /\ (Includes(error.text, Mark429) \/ Includes(error.text, MarkRateLimit))

\* openai.ts:159
IsConnectivity(error) ==
    error.flag /\ (Includes(error.text, MarkTimeout) \/ Includes(error.text, MarkRefused))

\* FallbackFor with the two tests in the other order
FallbackForConnectivityFirst(error) ==
    IF IsConnectivity(error) THEN ConnectivityFallback
    ELSE IF IsRateLimit(error) THEN RateLimitFallback
    ELSE GenericFallback

\* openai.ts:152-164, the catch block
FallbackFor(error) ==
    IF IsRateLimit(error) THEN RateLimitFallback
    ELSE IF IsConnectivity(error) THEN ConnectivityFallback
    ELSE GenericFallback

\* ReplyContent with "??" in place of "||": an empty reply text is kept
ReplyContentMissingOnly(response) ==
    IF response.flag THEN response.text ELSE ApologyReply

\* ReplyContent without the "|| apology" of openai.ts:151
ReplyContentAsIs(response) == response.text

\* openai.ts:151
ReplyContent(response) ==
    IF response.flag /\ response.text # Empty THEN response.text ELSE ApologyReply

\* what generateAIResponse returns for an outcome of the completion call
aiContentOf(outcome) ==
    IF outcome.kind = "throw" THEN FallbackFor(outcome) ELSE ReplyContent(outcome)

(***************************************************************************)
(* Input sets of the model.                                                *)
(***************************************************************************)
MailInvoice ==
    [from |-> AddrAlice, subject |-> SubjectInvoice, date |-> Yesterday,
     snippet |-> SnippetInvoice]

EventBoardSync ==
    [summary |-> BoardSync, start |-> Tomorrow, location |-> RoomA,
     attendees |-> <<AddrAlice, AddrBob>>]

\* The catch clauses of enrichContextWithBusinessData do not read the error,
\* so one "throw" stands for "not connected" and for every other failure.
EmailOutcomes ==
    { EmailOutcome("throw", << >>, "none", 0),
      EmailOutcome("ok", <<MailInvoice>>, "throw", 0),
      EmailOutcome("ok", <<MailInvoice>>, "ok", 3) }

CompletionOutcomes ==
    { Reply(ReplyOk), Reply(Empty), NoChoices,
      Throw(Msg429), Throw(MsgTimeout), Throw(MsgBoth), Throw(MsgOther),
      ThrowNoMessage }

(***************************************************************************)
(* The chat page (client/src/pages/chat-page.tsx) and its ChatInterface    *)
(* (client/src/components/chat-interface.tsx).                             *)
(***************************************************************************)
\* one code unit against WhiteSpace and LineTerminator of ECMAScript, the
\* units String.prototype.trim strips
IsWhiteSpace(c) ==
    \/ c >= 9 /\ c <= 13            \* TAB, LF, VT, FF, CR
    \/ c = 32 \/ c = 160            \* SPACE, NO-BREAK SPACE
    \/ c = 5760                     \* U+1680
    \/ c >= 8192 /\ c <= 8202       \* U+2000-U+200A
    \/ c = 8232 \/ c = 8233         \* LINE and PARAGRAPH SEPARATOR
    \/ c = 8239 \/ c = 8287         \* U+202F, U+205F
    \/ c = 12288 \/ c = 65279       \* U+3000, U+FEFF

\* String.prototype.trim()
trim(s) ==
    LET kept == {i \in 1..Len(s) : ~IsWhiteSpace(s[i])}
    IN  IF kept = {} THEN Empty
        ELSE SubSeq(s, CHOOSE i \in kept : \A j \in kept : i <= j,
                       CHOOSE i \in kept : \A j \in kept : j <= i)

\* chat-interface.tsx:29-32 and chat-page.tsx:11, 26: the state of a page
\* that was just mounted, once its effects have run, in a browser that has
\* SpeechRecognition (chat-interface.tsx:39-40).  mutations holds one
\* record per call of sendMessageMutation.mutate, in the order of the
\* calls.  recognition is the state of the SpeechRecognition object the
\* component holds: "idle" until start(), "listening" until it delivers a
\* result or an error, "ending" from then until its end event; "none"
\* stands for null.  detached holds the states of the objects of earlier
\* runs of the effect of lines 37-70 that have not ended yet.
Mounted ==
    [input |-> Empty, isRecording |-> FALSE, isTyping |-> FALSE, mutations |-> << >>,
     voiceLang |-> "ar-SA", recognition |-> "idle", detached |-> << >>]

\* the same in a browser without it: line 67 was not reached
MountedWithoutSpeech == [Mounted EXCEPT !.recognition = "none"]

\* chat-page.tsx:67  isLoading={sendMessageMutation.isPending}: the observer
\* follows the mutation of the latest mutate call
isLoading(c) ==
    /\ Len(c.mutations) > 0
    /\ c.mutations[Len(c.mutations)].status = "pending"

(***************************************************************************)
(* State.                                                                  *)
(*   conversations, messages, settingsRows: the tables, rows in insertion  *)
(*       order; a row's id is its position                                 *)
(*   now: the clock that stamps createdAt / updatedAt; it advances at      *)
(*       every insert of a message, so no two messages share a createdAt  *)
(*   published: the events broadcast() has sent                            *)
(*   tr: per chat turn, the position in the handler and its locals         *)
(*   sc: a caller of getSettings / updateSettings: its position and locals *)
(*   env: which identity variable the process environment holds            *)
(*   connectionSettings: per integration (gmail.ts, googleCalendar.ts),    *)
(*       the module variable of that name                                  *)
(*   http: a request to a route other than the chat turn: its position,    *)
(*       its locals and its response                                       *)
(*   tasks, businessProcesses: the tables of the tasks and of the          *)
(*       knowledge entries, as sets of rows                                *)
(*   chat: the state of the mounted chat page: the input, the recording    *)
(*       and typing flags, the sends it has made, the language of the      *)
(*       voice input and its SpeechRecognition objects                     *)
(*   clients: wss.clients, the readyState of each WebSocket client         *)
(*   statements: the update statements that storage.updateTask and         *)
(*       storage.updateConversation have built and the store has not run   *)
(*       yet, each with the updatedAt it was built with                    *)
(***************************************************************************)
VARIABLES conversations, messages, settingsRows, now, published, tr, sc,
          env, connectionSettings, http, tasks, businessProcesses, chat, clients,
          statements

vars == <<conversations, messages, settingsRows, now, published, tr, sc,
          env, connectionSettings, http, tasks, businessProcesses, chat, clients, statements>>

\* the tables of the tasks and of the knowledge entries
entities == <<tasks, businessProcesses>>

\* the state of the integrations and of the other routes, with their tables
integration == <<env, connectionSettings, http, entities, chat, clients, statements>>

Services == {"gmail", "calendar"}

\* let connectionSettings: any;  (gmail.ts:3, googleCalendar.ts:3)
NoConnection == [defined |-> FALSE, settings |-> FALSE, token |-> "none", expires |-> "none"]

\* the last segment of a request path: the literal "current", or an id
CurrentSegment == [literal |-> TRUE, id |-> 0]

IdSegment(id) == [literal |-> FALSE, id |-> id]

\* a request to another route before it arrives.  connected and latest are
\* not part of the program's state: connected tells whether the
\* integration was connected when the request was served, latest what the
\* latest conversation held when the response was made, served how many
\* requests to the routes of the other tables (and calls of
\* storage.updateConversation) have been answered
IdleHttp ==
    [pc |-> "idle", route |-> 0, service |-> "none", valid |-> TRUE,
     param |-> IdSegment(0), token |-> FALSE, connected |-> "unknown",
     status |-> 0, available |-> "absent", error |-> << >>,
     body |-> << >>, latest |-> << >>, conversation |-> 0, served |-> 0]
NoSettings ==
    [id |-> 0, assistantName |-> Empty, systemInstructions |-> Empty, updatedAt |-> 0]

NoRequest == [system |-> << >>, messages |-> << >>]

\* the column defaults of the settings table: the name "Modern" and a
\* bilingual instruction text (here: the word for "assistant" in both languages)
DefaultInstructionsDb ==
    <<1605, 1587, 1575, 1593, 1583, 32, 47, 32, 97, 115, 115, 105, 115, 116, 97, 110, 116>>

DefaultSettingsRow(id, time) ==
    [id |-> id, assistantName |-> DefaultAssistantName,
     systemInstructions |-> DefaultInstructionsDb,
     updatedAt |-> time]

\* an absent field of a patch is marked by has* = FALSE
NoPatch == [hasName |-> FALSE, name |-> Empty, hasInstructions |-> FALSE, instructions |-> Empty]

IdleCaller ==
    [pc |-> "idle", op |-> "none", patch |-> NoPatch, current |-> NoSettings,
     calls |-> 0, returned |-> << >>]

\* a chat turn before its request arrives.  bumpAt is the new Date() of
\* storage.ts:111 that the pending update of createMessage carries; call,
\* awaiting and token tell the connector call the enrichment is in, the
\* operation it awaits, and whether its client holds an access token
IdleTurn ==
    [pc |-> "idle", content |-> Empty, param |-> 0, conversationId |-> 0,
     userMessage |-> 0, history |-> << >>, settings |-> NoSettings,
     em |-> NoEmailCall, cal |-> NoCalendarCall, businessContext |-> << >>,
     request |-> NoRequest, outcome |-> NoOutcome, aiContent |-> Empty,
     aiMessage |-> 0, status |-> 0, failedAt |-> "none", log |-> << >>,
     systemContext |-> Empty, bumpAt |-> 0, call |-> "none", awaiting |-> "none",
     token |-> FALSE]

\* the process has REPL_IDENTITY or no identity variable (lines 11-15 of
\* getAccessToken)
TurnEnvs == {"none", "repl"}

MaxClients == 2

\* the sets of WebSocket clients a behaviour starts with: none, or one that
\* is OPEN
ClientSets == {<< >>, <<"OPEN">>}

\* routes.ts:38-40: is there a client whose readyState is OPEN
SomeOpen == \E i \in DOMAIN clients : clients[i] = "OPEN"

\* routes.ts:36-43 broadcast: the events sent so far and this one, which is
\* sent to the clients that are OPEN
broadcast(event) == IF SomeOpen THEN published \cup {event} ELSE published

Init ==
    /\ conversations = << >>
    /\ messages = << >>
    /\ settingsRows = << >>
    /\ now = 0
    /\ published = {}
    /\ tr = [t \in Turns |-> IdleTurn]
    /\ sc = IdleCaller
    /\ env = "none"
    /\ connectionSettings = [s \in Services |-> NoConnection]
    /\ http = IdleHttp
    /\ tasks = {}
    /\ businessProcesses = {}
    /\ chat = Mounted
    /\ clients \in ClientSets
    /\ statements = << >>


(***************************************************************************)
(* Storage operations (storage.ts).                                        *)
(***************************************************************************)
\* storage.ts:63-69 createConversation: the row inserted
NewConversation(title, time) ==
    [id |-> Len(conversations) + 1, title |-> title, createdAt |-> time,
     updatedAt |-> time]

\* storage.ts:104-107 createMessage, the insert: the row inserted; turn is
\* the request that inserted it (not a column)
NewMessage(conversationId, role, content, time, t) ==
    [id |-> Len(messages) + 1, conversationId |-> conversationId, role |-> role,
     content |-> content, createdAt |-> time, turn |-> t]

\* storage.ts:109-112 createMessage, the update: no row matches an unknown id
BumpConversation(conversationId, time) ==
    [c \in 1..Len(conversations) |->
        IF conversations[c].id = conversationId
        THEN [conversations[c] EXCEPT !.updatedAt = time]
        ELSE conversations[c]]

\* getMessages without the where clause of storage.ts:85
getMessagesOfAll(conversationId) == messages

\* storage.ts:81-87 getMessages: rows are appended with increasing
\* createdAt, so the table order is the createdAt order
getMessages(conversationId) ==
    SelectSeq(messages, LAMBDA m : m.conversationId = conversationId)

\* RoleContent over a window of the last two rows
RoleContentLastTwo(rows) ==
    LET from == IF Len(rows) > 2 THEN Len(rows) - 1 ELSE 1
    IN  [i \in 1..(Len(rows) - from + 1) |->
            [role |-> rows[from + i - 1].role, content |-> rows[from + i - 1].content]]

\* routes.ts:124  conversationMessages.map(m => ({ role, content }))
RoleContent(rows) == [i \in 1..Len(rows) |-> [role |-> rows[i].role, content |-> rows[i].content]]

\* openai.ts:144-147: the messages of the completion request, built from
\* fullSystemMessage and the messages argument
completionMessages(system, msgs) ==
    << [role |-> "system", content |-> system] >>
    \o [i \in 1..Len(msgs) |-> [role |-> msgs[i].role, content |-> msgs[i].content]]

(***************************************************************************)
(* The chat turn: POST /api/messages/:conversationId?  (routes.ts:97-141). *)
(* One action per await; the synchronous code after an await belongs to    *)
(* the action of that await.                                               *)
(***************************************************************************)
Step(t, label) == Append(tr[t].log, label)

\* Start without the test of routes.ts:103: a conversation is created
\* whether or not the request names one
StartAlwaysCreates(t, content, param) ==
    /\ tr[t].pc = "idle"
    /\ \A u \in Turns : u < t => tr[u].pc # "idle"
    /\ tr' = [tr EXCEPT ![t] = [@ EXCEPT
                !.pc = "createConversation",
                !.content = content, !.param = param, !.conversationId = param]]
    /\ UNCHANGED <<integration, sc, conversations, messages, settingsRows, now, published>>

\* the request arrives: routes.ts:99-103
Start(t, content, param) ==
    /\ tr[t].pc = "idle"
    /\ \A u \in Turns : u < t => tr[u].pc # "idle"
    /\ tr' = [tr EXCEPT ![t] = [@ EXCEPT
                !.pc = IF param = 0 THEN "createConversation" ELSE "insertUser",
                !.content = content, !.param = param, !.conversationId = param]]
    /\ UNCHANGED <<integration, sc, conversations, messages, settingsRows, now, published>>

\* routes.ts:103-108
CreateConversation(t) ==
    /\ tr[t].pc = "createConversation"
    /\ conversations' = Append(conversations, NewConversation(TitleOf(tr[t].content), now))
    /\ tr' = [tr EXCEPT ![t] = [@ EXCEPT
                !.pc = "insertUser",
                !.conversationId = Len(conversations) + 1,
                !.log = Step(t, "create_conversation")]]
    /\ UNCHANGED <<integration, sc, messages, settingsRows, now, published>>

\* InsertUserMessage with the role of routes.ts:130 in place of routes.ts:113
InsertUserMessageAsAssistant(t) ==
    /\ tr[t].pc = "insertUser"
    /\ now' = now + 1
    /\ messages' = Append(messages,
            NewMessage(tr[t].conversationId, "assistant", tr[t].content, now', t))
    /\ tr' = [tr EXCEPT ![t] = [@ EXCEPT
                !.pc = "bumpUser",
                !.userMessage = Len(messages) + 1,
                !.bumpAt = now',
                !.log = Step(t, "persist_user")]]
    /\ UNCHANGED <<integration, sc, conversations, settingsRows, published>>

\* routes.ts:111-115, storage.ts:104-107
InsertUserMessage(t) ==
    /\ tr[t].pc = "insertUser"
    /\ now' = now + 1
    /\ messages' = Append(messages,
            NewMessage(tr[t].conversationId, "user", tr[t].content, now', t))
    /\ tr' = [tr EXCEPT ![t] = [@ EXCEPT
                !.pc = "bumpUser",
                !.userMessage = Len(messages) + 1,
                !.bumpAt = now',
                !.log = Step(t, "persist_user")]]
    /\ UNCHANGED <<integration, sc, conversations, settingsRows, published>>

\* BumpAfterUserMessage without the broadcast of routes.ts:117
BumpAfterUserMessageNoBroadcast(t) ==
    /\ tr[t].pc = "bumpUser"
    /\ conversations' = BumpConversation(tr[t].conversationId, tr[t].bumpAt)
    /\ tr' = [tr EXCEPT ![t] = [@ EXCEPT !.pc = "getMessages"]]
    /\ UNCHANGED <<integration, sc, messages, settingsRows, now, published>>

\* storage.ts:109-114: the update runs; it writes the new Date() that was
\* taken when the statement was built, which is when the insert returned
\* (storage.ts:111).  Then routes.ts:117.
BumpAfterUserMessage(t) ==
    /\ tr[t].pc = "bumpUser"
    /\ conversations' = BumpConversation(tr[t].conversationId, tr[t].bumpAt)
    /\ published' = broadcast([type |-> "message_created", data |-> tr[t].userMessage])
    /\ tr' = [tr EXCEPT ![t] = [@ EXCEPT
                !.pc = "getMessages",
                !.log = IF SomeOpen THEN Step(t, "publish_user") ELSE @]]
    /\ UNCHANGED <<integration, sc, messages, settingsRows, now>>

\* LoadHistory behind a lock per conversation: it waits while another turn
\* on the same conversation stands between its user and assistant message
LoadHistorySerialized(t) ==
    /\ tr[t].pc = "getMessages"
    /\ \A u \in Turns \ {t} :
          tr[u].conversationId = tr[t].conversationId =>
              tr[u].pc \in {"idle", "createConversation", "insertUser", "done"}
    /\ tr' = [tr EXCEPT ![t] = [@ EXCEPT
                !.pc = "selectSettings",
                !.history = RoleContent(getMessages(tr[t].conversationId)),
                !.log = Step(t, "load_history")]]
    /\ UNCHANGED <<integration, sc, conversations, messages, settingsRows, now, published>>

\* routes.ts:120, then openai.ts:81-84 up to the await of getSettings
LoadHistory(t) ==
    /\ tr[t].pc = "getMessages"
    /\ tr' = [tr EXCEPT ![t] = [@ EXCEPT
                !.pc = "selectSettings",
                !.history = RoleContent(getMessages(tr[t].conversationId)),
                !.log = Step(t, "load_history")]]
    /\ UNCHANGED <<integration, sc, conversations, messages, settingsRows, now, published>>

\* storage.ts:172-176: select().from(settings).limit(1) has no ORDER BY, so
\* with several rows any of them may be the one returned
SelectSettings(t) ==
    /\ tr[t].pc = "selectSettings"
    /\ \/ /\ settingsRows = << >>
          /\ tr' = [tr EXCEPT ![t] = [@ EXCEPT
                      !.pc = "insertSettings",
                      !.log = Step(t, "read_settings")]]
       \/ \E i \in 1..Len(settingsRows) :
             tr' = [tr EXCEPT ![t] = [@ EXCEPT
                      !.pc = "enrich",
                      !.settings = settingsRows[i],
                      !.log = Step(t, "read_settings")]]
    /\ UNCHANGED <<integration, sc, conversations, messages, settingsRows, now, published>>

\* storage.ts:179-184
InsertSettings(t) ==
    /\ tr[t].pc = "insertSettings"
    /\ settingsRows' = Append(settingsRows, DefaultSettingsRow(Len(settingsRows) + 1, now))
    /\ tr' = [tr EXCEPT ![t] = [@ EXCEPT
                !.pc = "enrich",
                !.settings = DefaultSettingsRow(Len(settingsRows) + 1, now),
                !.log = Step(t, "create_settings")]]
    /\ UNCHANGED <<integration, sc, conversations, messages, now, published>>

\* what the connector lookup can return as data.items?.[0] (gmail.ts:29):
\* nothing, a connection without settings, or a connection whose settings
\* hold settings.access_token ("direct"), only
\* settings.oauth.credentials.access_token ("oauth") or neither, and an
\* expires_at that is absent, past or to come
LookupResults ==
    { NoConnection,
      [defined |-> TRUE, settings |-> FALSE, token |-> "none", expires |-> "none"] }
    \cup { [defined |-> TRUE, settings |-> TRUE, token |-> tk, expires |-> e] :
              tk \in {"none", "direct", "oauth"}, e \in {"none", "past", "future"} }

\* line 6 of getAccessToken: the test of the cached connectionSettings.
\* gmail.ts reads connectionSettings.settings.expires_at without "?.",
\* googleCalendar.ts reads connectionSettings?.settings?.expires_at
CachedToken(service, c) ==
    IF service = "gmail"
    THEN IF ~c.defined THEN "miss"
         ELSE IF ~c.settings THEN "typeerror"
         ELSE IF c.expires = "future" THEN "hit" ELSE "miss"
    ELSE IF c.defined /\ c.settings /\ c.expires = "future" THEN "hit" ELSE "miss"

\* lines 31-36 of getAccessToken.  gmail.ts:31 reads
\* connectionSettings.settings?.oauth... without "?." after
\* connectionSettings, which is evaluated when the first operand of || is
\* falsy; googleCalendar.ts:31 reads connectionSettings?.settings?.oauth...
AccessToken(service, c) ==
    IF service = "gmail"
    THEN IF c.defined /\ c.settings /\ c.token = "direct" THEN "token"
         ELSE IF ~c.defined THEN "typeerror"
         ELSE IF c.settings /\ c.token = "oauth" THEN "token"
         ELSE "notconnected"
    ELSE IF c.defined /\ c.settings /\ c.token \in {"direct", "oauth"} THEN "token"
         ELSE "notconnected"

(***************************************************************************)
(* Enrichment (openai.ts:18-74, called at openai.ts:90).  The connector    *)
(* calls are awaited one after the other; a call yields at the fetch of    *)
(* the connection (getAccessToken, line 21) and at each request to the     *)
(* Google API.  What getAccessToken does before the fetch runs in the step *)
(* that makes the call: with a cached connection the call goes straight to *)
(* the Google API, and without an identity in the environment it throws.   *)
(***************************************************************************)
\* gmail.ts, googleCalendar.ts: the integration a connector call belongs to
ServiceOf(call) == IF call = "getUpcomingEvents" THEN "calendar" ELSE "gmail"

\* openai.ts:72-73, 92-149: enrichContextWithBusinessData returns, the
\* prompt is built and the completion request is sent; systemContext is the
\* second argument of generateAIResponse, which the handler leaves out
\* (routes.ts:123-125)
SendCompletion(u) ==
    LET latest == latestUserMessage(u.history)
        isArabic == containsArabic(latest)
        context == enrichContextWithBusinessData(latest, u.em, u.cal)
    IN  [u EXCEPT !.pc = "awaitCompletion",
                  !.call = "none", !.awaiting = "none", !.token = FALSE,
                  !.businessContext = context,
                  !.request = [system |-> fullSystemMessage(u.settings, isArabic,
                                                             u.systemContext, context),
                               messages |-> u.history],
                  !.log = Append(u.log, "completion_call")]

\* openai.ts:67-70: the catch clause of the calendar block
CalendarThrew(u) ==
    SendCompletion([u EXCEPT !.cal = CalendarOutcome("throw", << >>)])

\* openai.ts:50-53, googleCalendar.ts:5-21, 198: getUpcomingEvents is called
\* and runs up to its first await; cs is connectionSettings
BeginCalendar(u, cs) ==
    IF CachedToken("calendar", cs["calendar"]) = "hit"
    THEN [u EXCEPT !.pc = "enriching", !.call = "getUpcomingEvents",
                   !.awaiting = "list",
                   !.token = (cs["calendar"].token = "direct")]
    ELSE IF env = "none" THEN CalendarThrew(u)
    ELSE [u EXCEPT !.pc = "enriching", !.call = "getUpcomingEvents",
                   !.awaiting = "fetch", !.token = FALSE]

\* openai.ts:45-50: the mail block is left; the test of the calendar keywords
AfterEmail(u, cs) ==
    IF IsCalendarIntent(latestUserMessage(u.history)) THEN BeginCalendar(u, cs)
    ELSE SendCompletion(u)

\* openai.ts:41-44: the catch clause of the mail block, entered from call
EmailThrew(u, call, cs) ==
    AfterEmail([u EXCEPT !.em = IF call = "getUnreadCount"
                                THEN [@ EXCEPT !.count = "throw"]
                                ELSE EmailOutcome("throw", << >>, "none", 0)], cs)

\* openai.ts:32-33, gmail.ts:5-21, 71, 189: listMessages or getUnreadCount
\* is called and runs up to its first await
BeginEmailCall(u, call, cs) ==
    LET cached == CachedToken("gmail", cs["gmail"])
    IN  IF cached = "hit"
        THEN [u EXCEPT !.pc = "enriching", !.call = call, !.awaiting = "list",
                       !.token = (cs["gmail"].token = "direct")]
        ELSE IF cached = "typeerror" \/ env = "none" THEN EmailThrew(u, call, cs)
        ELSE [u EXCEPT !.pc = "enriching", !.call = call, !.awaiting = "fetch",
                       !.token = FALSE]

\* the connector call the turn is in throws
CallThrew(u, cs) ==
    IF u.call = "getUpcomingEvents" THEN CalendarThrew(u)
    ELSE EmailThrew(u, u.call, cs)

\* openai.ts:90, 18-32: enrichContextWithBusinessData is called and runs up
\* to its first await
Enrich(t) ==
    LET latest == latestUserMessage(tr[t].history)
        u == [tr[t] EXCEPT !.log = Step(t, "enrich")]
    IN  /\ tr[t].pc = "enrich"
        /\ tr' = [tr EXCEPT ![t] =
                    IF latest = Empty THEN SendCompletion(u)
                    ELSE IF IsEmailIntent(latest)
                    THEN BeginEmailCall(u, "listMessages", connectionSettings)
                    ELSE AfterEmail(u, connectionSettings)]
        /\ UNCHANGED <<integration, sc, conversations, messages, settingsRows, now, published>>

\* lines 21-36 of getAccessToken: the fetch of the connection returns and is
\* assigned to connectionSettings
ConnectorReturns(t, result) ==
    LET service == ServiceOf(tr[t].call)
        cs == [connectionSettings EXCEPT ![service] = result]
    IN  /\ tr[t].pc = "enriching"
        /\ tr[t].awaiting = "fetch"
        /\ connectionSettings' = cs
        /\ tr' = [tr EXCEPT ![t] =
                    IF AccessToken(service, result) = "token"
                    THEN [@ EXCEPT !.awaiting = "list", !.token = TRUE]
                    ELSE CallThrew(@, cs)]
        /\ UNCHANGED <<env, http, entities, chat, clients, statements, sc, conversations, messages,
                       settingsRows, now, published>>

\* the fetch of the connection rejects: connectionSettings keeps its value
ConnectorRejects(t) ==
    /\ tr[t].pc = "enriching"
    /\ tr[t].awaiting = "fetch"
    /\ tr' = [tr EXCEPT ![t] = CallThrew(@, connectionSettings)]
    /\ UNCHANGED <<integration, sc, conversations, messages, settingsRows, now, published>>

\* gmail.ts:73-81: users.messages.list returns; Promise.all of no request is
\* settled at once
MessagesListed(t, emails) ==
    /\ tr[t].pc = "enriching"
    /\ tr[t].call = "listMessages"
    /\ tr[t].awaiting = "list"
    /\ tr[t].token
    /\ tr' = [tr EXCEPT ![t] =
                IF emails = << >>
                THEN BeginEmailCall([@ EXCEPT !.em = EmailOutcome("ok", << >>, "none", 0)],
                                    "getUnreadCount", connectionSettings)
                ELSE [@ EXCEPT !.awaiting = "get",
                               !.em = EmailOutcome("pending", emails, "none", 0)]]
    /\ UNCHANGED <<integration, sc, conversations, messages, settingsRows, now, published>>

\* gmail.ts:81-106, openai.ts:33: every users.messages.get has returned, and
\* getUnreadCount is called
MessagesFetched(t) ==
    /\ tr[t].pc = "enriching"
    /\ tr[t].awaiting = "get"
    /\ tr' = [tr EXCEPT ![t] =
                BeginEmailCall([@ EXCEPT !.em = [@ EXCEPT !.list = "ok"]],
                               "getUnreadCount", connectionSettings)]
    /\ UNCHANGED <<integration, sc, conversations, messages, settingsRows, now, published>>

\* gmail.ts:191-197: users.messages.list returns resultSizeEstimate
UnreadCounted(t, n) ==
    /\ tr[t].pc = "enriching"
    /\ tr[t].call = "getUnreadCount"
    /\ tr[t].awaiting = "list"
    /\ tr[t].token
    /\ tr' = [tr EXCEPT ![t] =
                AfterEmail([@ EXCEPT !.em = [@ EXCEPT !.count = "ok", !.unread = n]],
                           connectionSettings)]
    /\ UNCHANGED <<integration, sc, conversations, messages, settingsRows, now, published>>

\* googleCalendar.ts:200-218: events.list returns
EventsListed(t, events) ==
    /\ tr[t].pc = "enriching"
    /\ tr[t].call = "getUpcomingEvents"
    /\ tr[t].awaiting = "list"
    /\ tr[t].token
    /\ tr' = [tr EXCEPT ![t] = SendCompletion([@ EXCEPT !.cal = CalendarOutcome("ok", events)])]
    /\ UNCHANGED <<integration, sc, conversations, messages, settingsRows, now, published>>

\* a request to the Google API throws; without an access token it can only
\* throw
GoogleThrows(t) ==
    /\ tr[t].pc = "enriching"
    /\ tr[t].awaiting \in {"list", "get"}
    /\ tr' = [tr EXCEPT ![t] = CallThrew(@, connectionSettings)]
    /\ UNCHANGED <<integration, sc, conversations, messages, settingsRows, now, published>>

\* the awaited operations of the connectors return or throw, over the
\* given connections, mail lists, unread counts and event lists
Connectors(t, results, mailLists, counts, eventLists) ==
    \/ \E result \in results : ConnectorReturns(t, result)
    \/ ConnectorRejects(t)
    \/ \E emails \in mailLists : MessagesListed(t, emails)
    \/ MessagesFetched(t)
    \/ \E n \in counts : UnreadCounted(t, n)
    \/ \E events \in eventLists : EventsListed(t, events)
    \/ GoogleThrows(t)

\* CompletionReturns without the catch block: an error of the completion
\* call reaches the handler's catch, routes.ts:137-140
CompletionReturnsRethrows(t, outcome) ==
    /\ tr[t].pc = "awaitCompletion"
    /\ tr' = [tr EXCEPT ![t] =
                IF outcome.kind = "throw"
                THEN [@ EXCEPT !.pc = "done", !.outcome = outcome, !.status = 500]
                ELSE [@ EXCEPT !.pc = "insertAssistant", !.outcome = outcome,
                               !.aiContent = aiContentOf(outcome),
                               !.log = Step(t, "completion_return")]]
    /\ UNCHANGED <<integration, sc, conversations, messages, settingsRows, now, published>>

\* README, Recent Changes: "p-retry (7 retries, exponential backoff)"
MaxRetries == 7

\* the number of times the turn has called openai.chat.completions.create
CompletionCalls(t) ==
    Cardinality({i \in DOMAIN tr[t].log : tr[t].log[i] = "completion_call"})

\* openai.ts:151-164: the completion call returns or throws
CompletionReturns(t, outcome) ==
    /\ tr[t].pc = "awaitCompletion"
    /\ tr' = [tr EXCEPT ![t] = [@ EXCEPT
                !.pc = "insertAssistant",
                !.outcome = outcome,
                !.aiContent = aiContentOf(outcome),
                !.log = Step(t, "completion_return")]]
    /\ UNCHANGED <<integration, sc, conversations, messages, settingsRows, now, published>>

\* InsertAssistantMessage saving under req.params.conversationId instead of
\* the resolved conversationId
InsertAssistantMessageUnderParam(t) ==
    /\ tr[t].pc = "insertAssistant"
    /\ now' = now + 1
    /\ messages' = Append(messages,
            NewMessage(tr[t].param, "assistant", tr[t].aiContent, now', t))
    /\ tr' = [tr EXCEPT ![t] = [@ EXCEPT
                !.pc = "bumpAssistant",
                !.aiMessage = Len(messages) + 1,
                !.bumpAt = now',
                !.log = Step(t, "persist_assistant")]]
    /\ UNCHANGED <<integration, sc, conversations, settingsRows, published>>

\* routes.ts:128-132, storage.ts:104-107
InsertAssistantMessage(t) ==
    /\ tr[t].pc = "insertAssistant"
    /\ now' = now + 1
    /\ messages' = Append(messages,
            NewMessage(tr[t].conversationId, "assistant", tr[t].aiContent, now', t))
    /\ tr' = [tr EXCEPT ![t] = [@ EXCEPT
                !.pc = "bumpAssistant",
                !.aiMessage = Len(messages) + 1,
                !.bumpAt = now',
                !.log = Step(t, "persist_assistant")]]
    /\ UNCHANGED <<integration, sc, conversations, settingsRows, published>>

\* storage.ts:109-114 (the update writes the new Date() taken when the
\* insert returned), then routes.ts:134-136
BumpAfterAssistantMessage(t) ==
    /\ tr[t].pc = "bumpAssistant"
    /\ conversations' = BumpConversation(tr[t].conversationId, tr[t].bumpAt)
    /\ published' = broadcast([type |-> "message_created", data |-> tr[t].aiMessage])
    /\ tr' = [tr EXCEPT ![t] = [@ EXCEPT
                !.pc = "done",
                !.status = 200,
                !.log = (IF SomeOpen THEN Step(t, "publish_assistant") ELSE @)
                        \o <<"respond">>]]
    /\ UNCHANGED <<integration, sc, messages, settingsRows, now>>

\* the awaits on the store
StoreSteps ==
    {"createConversation", "insertUser", "bumpUser", "getMessages",
     "selectSettings", "insertSettings", "insertAssistant", "bumpAssistant"}

\* a store operation rejects: nothing in the handler or in generateAIResponse
\* catches it before routes.ts:137-140
StoreFails(t) ==
    /\ tr[t].pc \in StoreSteps
    /\ tr' = [tr EXCEPT ![t] = [@ EXCEPT
                !.pc = "done",
                !.status = 500,
                !.failedAt = tr[t].pc]]
    /\ UNCHANGED <<integration, sc, conversations, messages, settingsRows, now, published>>

(***************************************************************************)
(* Spec: MaxTurns requests served concurrently, over a narrow set of       *)
(* inputs (the interleavings are what is explored), in a process whose     *)
(* environment holds no identity for the connectors: every connector call  *)
(* of the enrichment throws before its first await.                        *)
(***************************************************************************)
NarrowTexts == {TextArabicMail, TextMailMeeting}

\* the connections the fetch of a connector returns: none, or one with an
\* access token that is valid for a while
NarrowLookups ==
    { NoConnection,
      [defined |-> TRUE, settings |-> TRUE, token |-> "direct", expires |-> "future"] }

\* as NarrowLookups, and a connection whose token is found under
\* settings.oauth only, and one without expires_at
WideLookups ==
    NarrowLookups
    \cup { [defined |-> TRUE, settings |-> TRUE, token |-> "oauth", expires |-> "future"],
           [defined |-> TRUE, settings |-> TRUE, token |-> "direct", expires |-> "none"] }

NarrowConnectors(t) ==
    Connectors(t, NarrowLookups, {<<MailInvoice>>}, {3}, {<<EventBoardSync>>})

WideConnectors(t) ==
    Connectors(t, WideLookups, {<< >>, <<MailInvoice>>}, {0, 3},
               {<< >>, <<EventBoardSync>>})

NarrowCompletionOutcomes == { Reply(ReplyOk), Throw(Msg429) }

Next ==
    \E t \in Turns :
        \/ \E c \in NarrowTexts, p \in 0..Len(conversations) : Start(t, c, p)
        \/ CreateConversation(t)
        \/ InsertUserMessage(t)
        \/ BumpAfterUserMessage(t)
        \/ LoadHistory(t)
        \/ SelectSettings(t)
        \/ InsertSettings(t)
        \/ Enrich(t)
        \/ \E o \in NarrowCompletionOutcomes : CompletionReturns(t, o)
        \/ InsertAssistantMessage(t)
        \/ BumpAfterAssistantMessage(t)
        \/ StoreFails(t)

Spec == Init /\ [][Next]_vars

(***************************************************************************)
(* SpecTurn: one request served on its own, over a wide set of inputs and  *)
(* from every kind of store it can find: empty, or holding a conversation  *)
(* with an earlier turn in Arabic or in English; with no settings row,     *)
(* the default row, or a row changed by updateSettings.                    *)
(* The conversationId of the request is absent (0), names a conversation   *)
(* of the store, or names none (the schema is not part of the sources:     *)
(* the insert under such an id may succeed or be rejected).  The process   *)
(* has an identity for the connectors or none, and a WebSocket client is   *)
(* open or none is connected.                                              *)
(***************************************************************************)
\* "What's on my calendar this week?"
TextCalendar ==
    <<87, 104, 97, 116, 39, 115, 32, 111, 110, 32, 109, 121, 32, 99, 97, 108,
      101, 110, 100, 97, 114, 32, 116, 104, 105, 115, 32, 119, 101, 101, 107,
      63>>

\* "Sam", "Be brief."
NameSam == <<83, 97, 109>>

InstructionsBrief == <<66, 101, 32, 98, 114, 105, 101, 102, 46>>

\* the code units at the two ends of, and next to, each range of arabicRegex
BoundaryUnits ==
    { 1535, 1536, 1791, 1792, 1871, 1872, 1919, 1920, 2207, 2208, 2303, 2304,
      64335, 64336, 65023, 65024, 65135, 65136, 65279, 65280 }

WideTexts ==
    {Empty, TextArabicMail, TextMailMeeting, TextCalendar, TextFifty, TextFiftyOne}
    \cup { <<c>> : c \in BoundaryUnits }

\* the store after one earlier turn with the given text and reply, served
\* at times 1 and 2 (turn 0 stands for that earlier request)
EarlierConversations(text) ==
    << [id |-> 1, title |-> TitleOf(text), createdAt |-> 0, updatedAt |-> 2] >>

EarlierMessages(text, reply) ==
    << [id |-> 1, conversationId |-> 1, role |-> "user", content |-> text,
        createdAt |-> 1, turn |-> 0],
       [id |-> 2, conversationId |-> 1, role |-> "assistant", content |-> reply,
        createdAt |-> 2, turn |-> 0] >>

EarlierTexts == {TextArabicMail, TextMailMeeting}

\* the settings tables a request can find
SettingsTables ==
    { << >>,
      << DefaultSettingsRow(1, 0) >>,
      << [id |-> 1, assistantName |-> NameSam,
          systemInstructions |-> InstructionsBrief, updatedAt |-> 0] >>,
      << [id |-> 1, assistantName |-> Empty,
          systemInstructions |-> Empty, updatedAt |-> 0] >> }

InitTurn ==
    /\ \/ /\ conversations = << >>
          /\ messages = << >>
          /\ now = 0
       \/ \E text \in EarlierTexts :
             /\ conversations = EarlierConversations(text)
             /\ messages = EarlierMessages(text, ReplyOk)
             /\ now = 2
    /\ settingsRows \in SettingsTables
    /\ published = {}
    /\ tr = [t \in Turns |-> IdleTurn]
    /\ sc = IdleCaller
    /\ env \in TurnEnvs
    /\ connectionSettings = [s \in Services |-> NoConnection]
    /\ http = IdleHttp
    /\ tasks = {}
    /\ businessProcesses = {}
    /\ chat = Mounted
    /\ clients \in ClientSets
    /\ statements = << >>

NextTurn ==
    \/ \E c \in WideTexts, p \in 0..(Len(conversations) + 1) : Start(1, c, p)
    \/ CreateConversation(1)
    \/ InsertUserMessage(1)
    \/ BumpAfterUserMessage(1)
    \/ LoadHistory(1)
    \/ SelectSettings(1)
    \/ InsertSettings(1)
    \/ Enrich(1)
    \/ NarrowConnectors(1)
    \/ \E o \in CompletionOutcomes : CompletionReturns(1, o)
    \/ InsertAssistantMessage(1)
    \/ BumpAfterAssistantMessage(1)
    \/ StoreFails(1)

SpecTurn == InitTurn /\ [][NextTurn]_vars

\* SpecTurnFair: one request, where every call that is awaited returns or
\* throws in the end: a request that can take a step takes one.  The texts
\* are the empty text and two texts with keywords; every outcome of the
\* completion call is drawn.
FairTexts == {Empty, TextArabicMail, TextMailMeeting}

NextTurnFair ==
    \/ \E c \in FairTexts, p \in 0..(Len(conversations) + 1) : Start(1, c, p)
    \/ CreateConversation(1)
    \/ InsertUserMessage(1)
    \/ BumpAfterUserMessage(1)
    \/ LoadHistory(1)
    \/ SelectSettings(1)
    \/ InsertSettings(1)
    \/ Enrich(1)
    \/ NarrowConnectors(1)
    \/ \E o \in CompletionOutcomes : CompletionReturns(1, o)
    \/ InsertAssistantMessage(1)
    \/ BumpAfterAssistantMessage(1)
    \/ StoreFails(1)

SpecTurnFair == InitTurn /\ [][NextTurnFair]_vars /\ WF_vars(NextTurnFair)

(***************************************************************************)
(* SpecNotify: one request, with a notifier that can fail.  broadcast()    *)
(* (routes.ts:36-43) calls client.send for every open client, is called    *)
(* inside the handler's try block (routes.ts:117, 134) and catches         *)
(* nothing: an error thrown by a send leaves the forEach, reaches          *)
(* routes.ts:137-140, and the clients before the failing one have been     *)
(* sent the event.                                                         *)
(***************************************************************************)
\* routes.ts:37-41: the clients before client k that are OPEN have been sent
\* the event when the send to client k throws
SentBefore(k) == \E j \in 1..(k - 1) : clients[j] = "OPEN"

\* storage.ts:109-114 returns, then broadcast throws at routes.ts:117
BroadcastThrowsAfterUser(t, k) ==
    /\ tr[t].pc = "bumpUser"
    /\ k \in DOMAIN clients
    /\ clients[k] = "OPEN"
    /\ conversations' = BumpConversation(tr[t].conversationId, tr[t].bumpAt)
    /\ published' = IF SentBefore(k)
                    THEN published \cup {[type |-> "message_created", data |-> tr[t].userMessage]}
                    ELSE published
    /\ tr' = [tr EXCEPT ![t] = [@ EXCEPT
                !.pc = "done", !.status = 500, !.failedAt = "publishUser"]]
    /\ UNCHANGED <<integration, sc, messages, settingsRows, now>>

\* storage.ts:109-114 returns, then broadcast throws at routes.ts:134
BroadcastThrowsAfterAssistant(t, k) ==
    /\ tr[t].pc = "bumpAssistant"
    /\ k \in DOMAIN clients
    /\ clients[k] = "OPEN"
    /\ conversations' = BumpConversation(tr[t].conversationId, tr[t].bumpAt)
    /\ published' = IF SentBefore(k)
                    THEN published \cup {[type |-> "message_created", data |-> tr[t].aiMessage]}
                    ELSE published
    /\ tr' = [tr EXCEPT ![t] = [@ EXCEPT
                !.pc = "done", !.status = 500, !.failedAt = "publishAssistant"]]
    /\ UNCHANGED <<integration, sc, messages, settingsRows, now>>

NextNotify ==
    \/ NextTurnFair
    \/ \E k \in 1..MaxClients : BroadcastThrowsAfterUser(1, k)
    \/ \E k \in 1..MaxClients : BroadcastThrowsAfterAssistant(1, k)

\* the sets of WebSocket clients of SpecNotify: up to MaxClients, each OPEN or
\* CLOSING
NotifyClientSets ==
    UNION { [1..n -> {"OPEN", "CLOSING"}] : n \in 0..MaxClients }

InitNotify ==
    /\ \/ /\ conversations = << >>
          /\ messages = << >>
          /\ now = 0
       \/ \E text \in EarlierTexts :
             /\ conversations = EarlierConversations(text)
             /\ messages = EarlierMessages(text, ReplyOk)
             /\ now = 2
    /\ settingsRows \in SettingsTables
    /\ published = {}
    /\ tr = [t \in Turns |-> IdleTurn]
    /\ sc = IdleCaller
    /\ env \in TurnEnvs
    /\ connectionSettings = [s \in Services |-> NoConnection]
    /\ http = IdleHttp
    /\ tasks = {}
    /\ businessProcesses = {}
    /\ chat = Mounted
    /\ clients \in NotifyClientSets
    /\ statements = << >>

SpecNotify == InitNotify /\ [][NextNotify]_vars

(***************************************************************************)
(* SpecGenerate: generateAIResponse(messages, systemContext) called on its *)
(* own (openai.ts:76-165), with and without an override prompt, on         *)
(* histories of one or two turns and on the empty history.                 *)
(***************************************************************************)
\* "Answer in French."
OverridePrompt ==
    <<65, 110, 115, 119, 101, 114, 32, 105, 110, 32, 70, 114, 101, 110, 99, 104, 46>>

\* undefined or "" (both falsy at openai.ts:135), or a prompt
SystemContexts == {Empty, OverridePrompt}

Histories ==
    { << >>,
      << [role |-> "user", content |-> TextMailMeeting] >>,
      << [role |-> "user", content |-> TextCalendar] >>,
      << [role |-> "user", content |-> TextArabicMail],
         [role |-> "assistant", content |-> ReplyOk],
         [role |-> "user", content |-> TextFifty] >>,
      << [role |-> "user", content |-> TextFifty],
         [role |-> "assistant", content |-> ReplyOk],
         [role |-> "user", content |-> TextArabicMail] >> }

\* openai.ts:76-87: the call, up to the await of getSettings
CallGenerate(t, msgs, systemContext) ==
    /\ tr[t].pc = "idle"
    /\ tr' = [tr EXCEPT ![t] = [@ EXCEPT
                !.pc = "selectSettings",
                !.history = msgs,
                !.systemContext = systemContext]]
    /\ UNCHANGED <<integration, sc, conversations, messages, settingsRows, now, published>>

\* storage.getSettings() rejects: generateAIResponse rejects (openai.ts:87
\* stands outside the try block)
GetSettingsRejects(t) ==
    /\ tr[t].pc \in {"selectSettings", "insertSettings"}
    /\ tr' = [tr EXCEPT ![t] = [@ EXCEPT !.pc = "done", !.failedAt = tr[t].pc]]
    /\ UNCHANGED <<integration, sc, conversations, messages, settingsRows, now, published>>

\* after CompletionReturns the call has returned aiContent to its caller
NextGenerate ==
    \/ \E msgs \in Histories, systemContext \in SystemContexts :
          CallGenerate(1, msgs, systemContext)
    \/ SelectSettings(1)
    \/ InsertSettings(1)
    \/ GetSettingsRejects(1)
    \/ Enrich(1)
    \/ WideConnectors(1)
    \/ \E o \in CompletionOutcomes : CompletionReturns(1, o)

InitGenerate ==
    /\ conversations = << >>
    /\ messages = << >>
    /\ now = 0
    /\ settingsRows \in SettingsTables
    /\ published = {}
    /\ tr = [t \in Turns |-> IdleTurn]
    /\ sc = IdleCaller
    /\ env \in TurnEnvs
    /\ connectionSettings = [s \in Services |-> NoConnection]
    /\ http = IdleHttp
    /\ tasks = {}
    /\ businessProcesses = {}
    /\ chat = Mounted
    /\ clients \in ClientSets
    /\ statements = << >>

SpecGenerate == InitGenerate /\ [][NextGenerate]_vars

(***************************************************************************)
(* The Gmail and Google Calendar integrations: getAccessToken (gmail.ts    *)
(* and googleCalendar.ts, lines 5-37) and their routes (routes.ts:287-445).*)
(***************************************************************************)
\* "not connected"  (routes.ts:296)
MarkNotConnected ==
    <<110, 111, 116, 32, 99, 111, 110, 110, 101, 99, 116, 101, 100>>

\* "X_REPLIT_TOKEN"  (routes.ts:296)
MarkReplitToken ==
    <<88, 95, 82, 69, 80, 76, 73, 84, 95, 84, 79, 75, 69, 78>>

\* "X_REPLIT_TOKEN not found for repl/depl"  (gmail.ts:18, googleCalendar.ts:18)
ErrNoReplitToken ==
    <<88, 95, 82, 69, 80, 76, 73, 84, 95, 84, 79, 75, 69, 78, 32, 110, 111,
      116, 32, 102, 111, 117, 110, 100, 32, 102, 111, 114, 32, 114, 101,
      112, 108, 47, 100, 101, 112, 108>>

\* "Gmail not connected"  (gmail.ts:34)
ErrGmailNotConnected ==
    <<71, 109, 97, 105, 108, 32, 110, 111, 116, 32, 99, 111, 110, 110, 101,
      99, 116, 101, 100>>

\* "Google Calendar not connected"  (googleCalendar.ts:34)
ErrCalendarNotConnected ==
    <<71, 111, 111, 103, 108, 101, 32, 67, 97, 108, 101, 110, 100, 97, 114,
      32, 110, 111, 116, 32, 99, 111, 110, 110, 101, 99, 116, 101, 100>>

\* "Cannot read properties of undefined (reading 'settings')"  (the TypeError of gmail.ts:31 when connectionSettings is undefined)
ErrReadSettingsOfUndefined ==
    <<67, 97, 110, 110, 111, 116, 32, 114, 101, 97, 100, 32, 112, 114, 111,
      112, 101, 114, 116, 105, 101, 115, 32, 111, 102, 32, 117, 110, 100,
      101, 102, 105, 110, 101, 100, 32, 40, 114, 101, 97, 100, 105, 110,
      103, 32, 39, 115, 101, 116, 116, 105, 110, 103, 115, 39, 41>>

\* "Cannot read properties of undefined (reading 'expires_at')"  (the TypeError of gmail.ts:6 when connectionSettings has no settings)
ErrReadExpiresOfUndefined ==
    <<67, 97, 110, 110, 111, 116, 32, 114, 101, 97, 100, 32, 112, 114, 111,
      112, 101, 114, 116, 105, 101, 115, 32, 111, 102, 32, 117, 110, 100,
      101, 102, 105, 110, 101, 100, 32, 40, 114, 101, 97, 100, 105, 110,
      103, 32, 39, 101, 120, 112, 105, 114, 101, 115, 95, 97, 116, 39, 41>>

\* "fetch failed"  (the TypeError of a fetch that cannot reach the connector host)
ErrFetchFailed ==
    <<102, 101, 116, 99, 104, 32, 102, 97, 105, 108, 101, 100>>

\* "Invalid Credentials"  (an error of the Google API)
ErrInvalidCredentials ==
    <<73, 110, 118, 97, 108, 105, 100, 32, 67, 114, 101, 100, 101, 110,
      116, 105, 97, 108, 115>>

\* the routes of routes.ts:287-445 in the order they are registered;
\* validates: the handler checks the body before it calls the service;
\* nullable: the handler answers 404 when the service returns null
IntegrationRoutes ==
    << [method |-> "GET", path |-> "/api/gmail/messages", service |-> "gmail",
        validates |-> FALSE, nullable |-> FALSE],
       [method |-> "GET", path |-> "/api/gmail/messages/:id", service |-> "gmail",
        validates |-> FALSE, nullable |-> TRUE],
       [method |-> "POST", path |-> "/api/gmail/send", service |-> "gmail",
        validates |-> TRUE, nullable |-> FALSE],
       [method |-> "GET", path |-> "/api/gmail/unread-count", service |-> "gmail",
        validates |-> FALSE, nullable |-> FALSE],
       [method |-> "GET", path |-> "/api/calendar/events", service |-> "calendar",
        validates |-> FALSE, nullable |-> FALSE],
       [method |-> "GET", path |-> "/api/calendar/events/upcoming", service |-> "calendar",
        validates |-> FALSE, nullable |-> FALSE],
       [method |-> "GET", path |-> "/api/calendar/events/:id", service |-> "calendar",
        validates |-> FALSE, nullable |-> TRUE],
       [method |-> "POST", path |-> "/api/calendar/events", service |-> "calendar",
        validates |-> TRUE, nullable |-> FALSE],
       [method |-> "PATCH", path |-> "/api/calendar/events/:id", service |-> "calendar",
        validates |-> FALSE, nullable |-> FALSE],
       [method |-> "DELETE", path |-> "/api/calendar/events/:id", service |-> "calendar",
        validates |-> FALSE, nullable |-> FALSE] >>

NotConnectedError(service) ==
    IF service = "gmail" THEN ErrGmailNotConnected ELSE ErrCalendarNotConnected

\* has the connection an access token
HasToken(c) == c.defined /\ c.settings /\ c.token # "none"

\* the catch block of every integration route, e.g. routes.ts:294-300
Catch(h, message) ==
    IF Includes(message, MarkNotConnected) \/ Includes(message, MarkReplitToken)
    THEN [h EXCEPT !.pc = "responded", !.status = 503, !.available = "false",
                   !.error = message]
    ELSE [h EXCEPT !.pc = "responded", !.status = 500, !.error = message]

\* a request to route r arrives; the handler runs up to its first await:
\* the check of the body (routes.ts:324, 405), then getAccessToken up to
\* the fetch (lines 6-21), or up to the call of the Google API when the
\* cached connection is used
IntegrationRequest(r, valid) ==
    LET route == IntegrationRoutes[r]
        c == connectionSettings[route.service]
        h == [IdleHttp EXCEPT !.route = r, !.service = route.service, !.valid = valid]
        cached == CachedToken(route.service, c)
    IN  /\ http.pc \in {"idle", "responded"}
        /\ valid \/ route.validates
        /\ http' = IF route.validates /\ ~valid
                   THEN [h EXCEPT !.pc = "responded", !.status = 400]
                   ELSE IF cached = "typeerror"
                   THEN Catch([h EXCEPT !.connected = "no"], ErrReadExpiresOfUndefined)
                   ELSE IF cached = "hit"
                   THEN [h EXCEPT !.pc = "api", !.token = (c.token = "direct"),
                                  !.connected = IF HasToken(c) THEN "yes" ELSE "no"]
                   ELSE IF env = "none"
                   THEN Catch([h EXCEPT !.connected = "no"], ErrNoReplitToken)
                   ELSE [h EXCEPT !.pc = "lookup"]
        /\ UNCHANGED <<conversations, messages, settingsRows, now, published, tr, sc,
                       env, connectionSettings, entities, chat, clients, statements>>

\* the fetch of the connector returns (lines 21-36 of getAccessToken)
LookupReturns(result) ==
    LET h == [http EXCEPT !.connected = IF HasToken(result) THEN "yes" ELSE "no"]
        token == AccessToken(http.service, result)
    IN  /\ http.pc = "lookup"
        /\ connectionSettings' = [connectionSettings EXCEPT ![http.service] = result]
        /\ http' = IF token = "token" THEN [h EXCEPT !.pc = "api", !.token = TRUE]
                   ELSE IF token = "typeerror" THEN Catch(h, ErrReadSettingsOfUndefined)
                   ELSE Catch(h, NotConnectedError(http.service))
        /\ UNCHANGED <<conversations, messages, settingsRows, now, published, tr, sc, env, entities, chat, clients, statements>>

\* the fetch of the connector rejects: connectionSettings keeps its value
LookupRejects ==
    /\ http.pc = "lookup"
    /\ http' = Catch(http, ErrFetchFailed)
    /\ UNCHANGED <<conversations, messages, settingsRows, now, published, tr, sc,
                   env, connectionSettings, entities, chat, clients, statements>>

\* the calls of the Google API return a result, return no data (getMessage,
\* getEvent) or throw; without an access token they throw
ApiReturns(outcome) ==
    /\ http.pc = "api"
    /\ http.token \/ outcome = "throw"
    /\ outcome = "null" => IntegrationRoutes[http.route].nullable
    /\ http' = IF outcome = "ok" THEN [http EXCEPT !.pc = "responded", !.status = 200]
               ELSE IF outcome = "null" THEN [http EXCEPT !.pc = "responded", !.status = 404]
               ELSE Catch(http, ErrInvalidCredentials)
    /\ UNCHANGED <<conversations, messages, settingsRows, now, published, tr, sc,
                   env, connectionSettings, entities, chat, clients, statements>>

\* the process has REPL_IDENTITY, only WEB_REPL_RENEWAL, or neither
\* (lines 11-15 of getAccessToken)
InitIntegrations ==
    /\ conversations = << >>
    /\ messages = << >>
    /\ settingsRows = << >>
    /\ now = 0
    /\ published = {}
    /\ tr = [t \in Turns |-> IdleTurn]
    /\ sc = IdleCaller
    /\ env \in {"repl", "depl", "none"}
    /\ connectionSettings = [s \in Services |-> NoConnection]
    /\ http = IdleHttp
    /\ tasks = {}
    /\ businessProcesses = {}
    /\ chat = Mounted
    /\ clients \in ClientSets
    /\ statements = << >>

NextIntegrations ==
    \/ \E r \in DOMAIN IntegrationRoutes, valid \in BOOLEAN : IntegrationRequest(r, valid)
    \/ \E result \in LookupResults : LookupReturns(result)
    \/ LookupRejects
    \/ \E outcome \in {"ok", "null", "throw"} : ApiReturns(outcome)

SpecIntegrations == InitIntegrations /\ [][NextIntegrations]_vars

(***************************************************************************)
(* SpecCurrent: the GET routes of the messages (routes.ts:79-95) beside    *)
(* one chat turn.  Express hands a request to the first registered route   *)
(* whose path matches, and neither handler calls next().                   *)
(***************************************************************************)
\* routes.ts:79 and routes.ts:88, in the order they are registered
MessageRoutes ==
    << [method |-> "GET", path |-> "/api/messages/:conversationId", param |-> TRUE],
       [method |-> "GET", path |-> "/api/messages/current", param |-> FALSE] >>

\* a path parameter matches every segment, "current" only itself
Matches(route, segment) == route.param \/ segment.literal

Dispatch(segment) ==
    CHOOSE r \in DOMAIN MessageRoutes :
        /\ Matches(MessageRoutes[r], segment)
        /\ \A q \in 1..(r - 1) : ~Matches(MessageRoutes[q], segment)

\* req.params.conversationId as a key of the messages table: the ids of
\* the conversations are generated by the store and none is "current"
ParamId(segment) == IF segment.literal THEN 0 ELSE segment.id

\* storage.ts:90-94: the conversations with the greatest updatedAt, one of
\* which limit(1) returns
LatestConversations ==
    {c \in DOMAIN conversations :
        \A d \in DOMAIN conversations : conversations[d].updatedAt <= conversations[c].updatedAt}

\* storage.ts:89-101 getCurrentMessages: what it can return
CurrentMessages ==
    IF conversations = << >> THEN { << >> }
    ELSE { getMessages(conversations[c].id) : c \in LatestConversations }

\* a GET request arrives and its handler awaits the store
MessagesRequest(segment) ==
    /\ http.pc \in {"idle", "responded"}
    /\ http' = [IdleHttp EXCEPT !.pc = "store", !.service = "messages",
                                !.route = Dispatch(segment), !.param = segment]
    /\ UNCHANGED <<conversations, messages, settingsRows, now, published, tr, sc,
                   env, connectionSettings, entities, chat, clients, statements>>

\* the store answers the first route: routes.ts:81-82, storage.ts:81-87
MessagesResponds ==
    /\ http.pc = "store" /\ http.service = "messages"
    /\ http.route = 1
    /\ http' = [http EXCEPT !.pc = "responded", !.status = 200,
                            !.body = getMessages(ParamId(http.param)),
                            !.latest = CurrentMessages]
    /\ UNCHANGED <<conversations, messages, settingsRows, now, published, tr, sc,
                   env, connectionSettings, entities, chat, clients, statements>>

\* the store rejects: routes.ts:83-85
MessagesRejects ==
    /\ http.pc = "store" /\ http.service = "messages"
    /\ http' = [http EXCEPT !.pc = "responded", !.status = 500]
    /\ UNCHANGED <<conversations, messages, settingsRows, now, published, tr, sc,
                   env, connectionSettings, entities, chat, clients, statements>>

\* storage.ts:89-94: getCurrentMessages is called, by the handler of the
\* second route (routes.ts:90) or by another caller, and awaits the select
\* of the latest conversation
GetCurrentMessages ==
    /\ http.pc \in {"idle", "responded"}
    /\ http' = [IdleHttp EXCEPT !.pc = "latest", !.service = "storage"]
    /\ UNCHANGED <<conversations, messages, settingsRows, now, published, tr, sc,
                   env, connectionSettings, entities, chat, clients, statements>>

\* storage.ts:90-100: the select returns; without a row the call returns
\* [], with one it awaits getMessages of that conversation
LatestSelected ==
    /\ http.pc = "latest"
    /\ \/ /\ conversations = << >>
          /\ http' = [http EXCEPT !.pc = "responded", !.body = << >>]
       \/ \E c \in LatestConversations :
             http' = [http EXCEPT !.pc = "messagesOfLatest",
                                  !.conversation = conversations[c].id]
    /\ UNCHANGED <<conversations, messages, settingsRows, now, published, tr, sc,
                   env, connectionSettings, entities, chat, clients, statements>>

\* storage.ts:100, 81-87: the select of the messages returns
LatestMessagesSelected ==
    /\ http.pc = "messagesOfLatest"
    /\ http' = [http EXCEPT !.pc = "responded",
                            !.body = getMessages(http.conversation)]
    /\ UNCHANGED <<conversations, messages, settingsRows, now, published, tr, sc,
                   env, connectionSettings, entities, chat, clients, statements>>

NextCurrent ==
    \/ NextTurnFair
    \/ \E id \in 1..(Len(conversations) + 1) : MessagesRequest(IdSegment(id))
    \/ MessagesRequest(CurrentSegment)
    \/ MessagesResponds
    \/ MessagesRejects
    \/ GetCurrentMessages
    \/ LatestSelected
    \/ LatestMessagesSelected

\* the store before the requests: empty, or one conversation with an
\* earlier turn; no settings row or the default one; a client is connected
InitCurrent ==
    /\ \/ /\ conversations = << >>
          /\ messages = << >>
          /\ now = 0
       \/ /\ conversations = EarlierConversations(TextMailMeeting)
          /\ messages = EarlierMessages(TextMailMeeting, ReplyOk)
          /\ now = 2
    /\ settingsRows \in { << >>, << DefaultSettingsRow(1, 0) >> }
    /\ published = {}
    /\ tr = [t \in Turns |-> IdleTurn]
    /\ sc = IdleCaller
    /\ env \in TurnEnvs
    /\ connectionSettings = [s \in Services |-> NoConnection]
    /\ http = IdleHttp
    /\ tasks = {}
    /\ businessProcesses = {}
    /\ chat = Mounted
    /\ clients = <<"OPEN">>
    /\ statements = << >>

SpecCurrent == InitCurrent /\ [][NextCurrent]_vars

(***************************************************************************)
(* SpecEntities: one chat turn beside the routes that write the other      *)
(* tables: POST /api/conversations (routes.ts:67-76), the tasks            *)
(* (routes.ts:165-197) and the knowledge entries (routes.ts:221-240), and  *)
(* beside storage.updateConversation (storage.ts:71-78), a method of the   *)
(* exported storage object that no route calls: here a caller outside the  *)
(* routes invokes it.  A POST or DELETE handler awaits one statement of    *)
(* the store, then broadcasts and responds: one action each, taken when    *)
(* the statement returns.  An update is two steps, for the statement is    *)
(* built, with its updatedAt, before the store runs it.  Of a row the      *)
(* model keeps the id, the columns the routes write, and updatedAt.        *)
(***************************************************************************)
\* Numbers of rows the model lets the routes create.
MaxConversations == 2

MaxTasks == 1

MaxKnowledge == 1

\* Number of update statements built and not yet run.
MaxStatements == 1

\* Number of requests to these routes and calls of updateConversation.
MaxRequests == 3

\* the requests and calls so far: those answered, and those whose update
\* statement has not returned
Requests == http.served + Len(statements)

\* the statements under way but the i-th
Without(q, i) == SubSeq(q, 1, i - 1) \o SubSeq(q, i + 1, Len(q))

\* a response of one of these routes
Responded(service, status) ==
    [IdleHttp EXCEPT !.pc = "responded", !.service = service, !.status = status,
                     !.served = http.served + 1]

\* the sends of one call of broadcast (routes.ts:36-43): k = 0 when each of
\* them returns, else the send to client k, which is OPEN, throws
Sends(k) == k = 0 \/ (k \in DOMAIN clients /\ clients[k] = "OPEN")

\* routes.ts:36-43: the events sent once broadcast(event) has returned
\* (k = 0) or has thrown at client k: the clients before k have the event
broadcastUntil(event, k) ==
    IF k = 0 THEN broadcast(event)
    ELSE IF SentBefore(k) THEN published \cup {event} ELSE published

\* routes.ts:67-76, storage.ts:63-69: the insert returns; a send that throws
\* reaches the catch of routes.ts:73-75 with the row written
PostConversation(title, k) ==
    /\ Requests < MaxRequests
    /\ Len(conversations) < MaxConversations
    /\ Sends(k)
    /\ conversations' = Append(conversations, NewConversation(title, now))
    /\ published' = broadcastUntil([type |-> "conversation_created",
                                     data |-> Len(conversations) + 1], k)
    /\ http' = Responded("conversations", IF k = 0 THEN 200 ELSE 400)
    /\ UNCHANGED <<messages, settingsRows, now, tr, sc, env, connectionSettings, entities,
                   chat, clients, statements>>

\* storage.ts:71-78 updateConversation is called: the statement is built
\* with updatedAt: new Date() and handed to the store
updateConversationCalled(id, title) ==
    /\ Requests < MaxRequests
    /\ Len(statements) < MaxStatements
    /\ statements' = Append(statements,
          [table |-> "conversations", id |-> id, status |-> "none", title |-> title,
           updatedAt |-> now])
    /\ UNCHANGED <<conversations, messages, settingsRows, now, published, tr, sc, env,
                   connectionSettings, http, entities, chat, clients>>

\* storage.ts:72-77: the store has run the i-th statement, of updateConversation
\* (no row is changed when none has the id), or has rejected it
updateConversation(i, ok) ==
    /\ i \in DOMAIN statements
    /\ statements[i].table = "conversations"
    /\ statements' = Without(statements, i)
    /\ conversations' = [c \in DOMAIN conversations |->
                            IF ok /\ conversations[c].id = statements[i].id
                            THEN [conversations[c] EXCEPT !.title = statements[i].title,
                                                          !.updatedAt = statements[i].updatedAt]
                            ELSE conversations[c]]
    /\ http' = [http EXCEPT !.served = @ + 1]
    /\ UNCHANGED <<messages, settingsRows, now, published, tr, sc, env,
                   connectionSettings, entities, chat, clients>>

\* routes.ts:165-174, storage.ts:127-133: the id is generated by the store
PostTask(id, conversationId, k) ==
    /\ Requests < MaxRequests
    /\ Cardinality(tasks) < MaxTasks
    /\ \A row \in tasks : row.id # id
    /\ Sends(k)
    /\ tasks' = tasks \cup {[id |-> id, conversationId |-> conversationId,
                             title |-> SubjectInvoice, status |-> "pending",
                             updatedAt |-> now]}
    /\ published' = broadcastUntil([type |-> "task_created", data |-> id], k)
    /\ http' = Responded("tasks", IF k = 0 THEN 200 ELSE 400)
    /\ UNCHANGED <<conversations, messages, settingsRows, now, tr, sc, env,
                   connectionSettings, businessProcesses, chat, clients, statements>>

\* routes.ts:176-178, storage.ts:135-139: PATCH /api/tasks/:id arrives and
\* updateTask builds its statement, with updatedAt: new Date()
PatchTaskRequest(id, status) ==
    /\ Requests < MaxRequests
    /\ Len(statements) < MaxStatements
    /\ statements' = Append(statements,
          [table |-> "tasks", id |-> id, status |-> status, title |-> Empty,
           updatedAt |-> now])
    /\ UNCHANGED <<conversations, messages, settingsRows, now, published, tr, sc, env,
                   connectionSettings, http, entities, chat, clients>>

\* routes.ts:178-186, storage.ts:136-141: the store has run the i-th
\* statement, of updateTask: 404 when no row has the id; a send that throws reaches
\* the catch of routes.ts:184-186 with the row updated
PatchTask(i, k) ==
    /\ i \in DOMAIN statements
    /\ statements[i].table = "tasks"
    /\ statements' = Without(statements, i)
    /\ tasks' = {IF row.id = statements[i].id
                 THEN [row EXCEPT !.status = statements[i].status, !.updatedAt = statements[i].updatedAt]
                 ELSE row : row \in tasks}
    /\ IF \E row \in tasks : row.id = statements[i].id
       THEN /\ Sends(k)
            /\ published' = broadcastUntil([type |-> "task_updated", data |-> statements[i].id], k)
            /\ http' = Responded("tasks", IF k = 0 THEN 200 ELSE 500)
       ELSE /\ k = 0
            /\ published' = published
            /\ http' = Responded("tasks", 404)
    /\ UNCHANGED <<conversations, messages, settingsRows, now, tr, sc, env,
                   connectionSettings, businessProcesses, chat, clients>>

\* routes.ts:184-186: the store rejects the i-th statement, of updateTask
PatchTaskRejects(i) ==
    /\ i \in DOMAIN statements
    /\ statements[i].table = "tasks"
    /\ statements' = Without(statements, i)
    /\ http' = Responded("tasks", 500)
    /\ UNCHANGED <<conversations, messages, settingsRows, now, published, tr, sc, env,
                   connectionSettings, entities, chat, clients>>

\* routes.ts:189-197, storage.ts:144-146: the delete returns, whether or
\* not a row had the id; task_deleted carries the id of the request
DeleteTask(id, k) ==
    /\ Requests < MaxRequests
    /\ Sends(k)
    /\ tasks' = {row \in tasks : row.id # id}
    /\ published' = broadcastUntil([type |-> "task_deleted", data |-> id], k)
    /\ http' = Responded("tasks", IF k = 0 THEN 200 ELSE 500)
    /\ UNCHANGED <<conversations, messages, settingsRows, now, tr, sc, env,
                   connectionSettings, businessProcesses, chat, clients, statements>>

\* routes.ts:221-230, storage.ts:158-164
PostKnowledge(id, k) ==
    /\ Requests < MaxRequests
    /\ Cardinality(businessProcesses) < MaxKnowledge
    /\ \A row \in businessProcesses : row.id # id
    /\ Sends(k)
    /\ businessProcesses' = businessProcesses \cup
          {[id |-> id, title |-> BoardSync, updatedAt |-> now]}
    /\ published' = broadcastUntil([type |-> "knowledge_created", data |-> id], k)
    /\ http' = Responded("knowledge", IF k = 0 THEN 200 ELSE 400)
    /\ UNCHANGED <<conversations, messages, settingsRows, now, tr, sc, env,
                   connectionSettings, tasks, chat, clients, statements>>

\* routes.ts:232-240, storage.ts:166-168
DeleteKnowledge(id, k) ==
    /\ Requests < MaxRequests
    /\ Sends(k)
    /\ businessProcesses' = {row \in businessProcesses : row.id # id}
    /\ published' = broadcastUntil([type |-> "knowledge_deleted", data |-> id], k)
    /\ http' = Responded("knowledge", IF k = 0 THEN 200 ELSE 500)
    /\ UNCHANGED <<conversations, messages, settingsRows, now, tr, sc, env,
                   connectionSettings, tasks, chat, clients, statements>>

\* the body of a POST does not parse, or the insert or the delete rejects:
\* the catch blocks answer 400 (POST, routes.ts:73-75, 171-173, 227-229)
\* and 500 (DELETE, routes.ts:194-196, 237-239)
EntityRouteFails(service, status) ==
    /\ Requests < MaxRequests
    /\ \/ status = 400
       \/ status = 500 /\ service \in {"tasks", "knowledge"}
    /\ http' = Responded(service, status)
    /\ UNCHANGED <<conversations, messages, settingsRows, now, published, tr, sc, env,
                   connectionSettings, entities, chat, clients, statements>>

\* the store before the turn: one conversation with an earlier turn and no
\* settings row; the process has no identity for the connectors, so that
\* the enrichment of the turn is one step; a WebSocket client is open
InitEntities ==
    /\ conversations = EarlierConversations(TextMailMeeting)
    /\ messages = EarlierMessages(TextMailMeeting, ReplyOk)
    /\ now = 2
    /\ settingsRows = << >>
    /\ published = {}
    /\ tr = [t \in Turns |-> IdleTurn]
    /\ sc = IdleCaller
    /\ env = "none"
    /\ connectionSettings = [s \in Services |-> NoConnection]
    /\ http = IdleHttp
    /\ tasks = {}
    /\ businessProcesses = {}
    /\ chat = Mounted
    /\ clients = <<"OPEN">>
    /\ statements = << >>

NextEntities ==
    \/ \E p \in 0..Len(conversations) : Start(1, TextMailMeeting, p)
    \/ CreateConversation(1)
    \/ InsertUserMessage(1)
    \/ BumpAfterUserMessage(1)
    \/ LoadHistory(1)
    \/ SelectSettings(1)
    \/ InsertSettings(1)
    \/ Enrich(1)
    \/ \E o \in NarrowCompletionOutcomes : CompletionReturns(1, o)
    \/ InsertAssistantMessage(1)
    \/ BumpAfterAssistantMessage(1)
    \/ StoreFails(1)
    \/ \E k \in 0..MaxClients : PostConversation(TextFifty, k)
    \/ \E id \in 1..MaxConversations : updateConversationCalled(id, TextRenamed)
    \/ \E i \in 1..MaxStatements, ok \in BOOLEAN : updateConversation(i, ok)
    \/ \E id \in 1..MaxTasks, c \in 0..1, k \in 0..MaxClients : PostTask(id, c, k)
    \/ \E id \in 1..MaxTasks : PatchTaskRequest(id, "completed")
    \/ \E i \in 1..MaxStatements, k \in 0..MaxClients : PatchTask(i, k)
    \/ \E i \in 1..MaxStatements : PatchTaskRejects(i)
    \/ \E id \in 1..MaxTasks, k \in 0..MaxClients : DeleteTask(id, k)
    \/ \E id \in 1..MaxKnowledge, k \in 0..MaxClients : PostKnowledge(id, k)
    \/ \E id \in 1..MaxKnowledge, k \in 0..MaxClients : DeleteKnowledge(id, k)
    \/ \E service \in {"conversations", "tasks", "knowledge"}, status \in {400, 500} :
          EntityRouteFails(service, status)

SpecEntities == InitEntities /\ [][NextEntities]_vars

(***************************************************************************)
(* SpecChat: one mounted chat page.  An action is one browser event,       *)
(* handled by the handler of the latest render, together with the render   *)
(* that the handler's state updates cause.  The submit and keydown events  *)
(* are delivered in every state, so that the test inside handleSubmit, and *)
(* not the disabled attribute of a control, decides what is sent.  The     *)
(* server is left alone: a mutation settles with either outcome.           *)
(***************************************************************************)
\* Number of calls of sendMessageMutation.mutate on the page.
MaxSends == 3

\* Longest input that speech recognition still appends to.
MaxInputLen == 7

\* values of the textarea: "", " ", " hi ", "hi\n"
TypedTexts == {Empty, <<32>>, <<32, 104, 105, 32>>, <<104, 105, 10>>}

\* transcripts of the speech recognition: "ok"
Transcripts == {<<111, 107>>}

\* everything but the chat page
server == <<conversations, messages, settingsRows, now, published, tr, sc,
            env, connectionSettings, http, entities, clients, statements>>

\* chat-page.tsx:26-36, 66  onSendMessage={(content) =>
\* sendMessageMutation.mutate(content)}, with onMutate: setIsTyping(true)
mutate(c, content) ==
    [c EXCEPT !.mutations = Append(@, [content |-> content, status |-> "pending"]),
              !.isTyping = TRUE]

\* chat-interface.tsx:104-108  handleInput, on a textarea that is disabled
\* while isLoading (line 299)
handleInput(value) ==
    /\ ~isLoading(chat)
    /\ chat' = [chat EXCEPT !.input = value]
    /\ UNCHANGED server

\* handleSubmit without the test of isLoading
handleSubmitWhileLoading ==
    /\ Len(chat.mutations) < MaxSends
    /\ chat' = IF trim(chat.input) # Empty
               THEN [mutate(chat, trim(chat.input)) EXCEPT !.input = Empty]
               ELSE chat
    /\ UNCHANGED server

\* chat-interface.tsx:86-95  handleSubmit
handleSubmit ==
    /\ Len(chat.mutations) < MaxSends
    /\ chat' = IF trim(chat.input) # Empty /\ ~isLoading(chat)
               THEN [mutate(chat, trim(chat.input)) EXCEPT !.input = Empty]
               ELSE chat
    /\ UNCHANGED server

\* chat-interface.tsx:97-102  handleKeyDown
handleKeyDown(key, shiftKey) ==
    IF key = "Enter" /\ ~shiftKey THEN handleSubmit ELSE UNCHANGED vars

\* Number of SpeechRecognition objects of earlier effect runs that are
\* still active.
MaxDetached == 1

VoiceLangs == {"ar-SA", "en-US"}

\* setVoiceLang(lang) and the render after it: when the language changes,
\* the effect of chat-interface.tsx:37-70 runs again and, in a browser with
\* SpeechRecognition, stores a new object; the one held before keeps its
\* handlers and, if it was started, goes on until its end event
setVoiceLang(c, lang) ==
    IF lang = c.voiceLang \/ c.recognition = "none"
    THEN [c EXCEPT !.voiceLang = lang]
    ELSE [c EXCEPT !.voiceLang = lang,
                   !.recognition = "idle",
                   !.detached = IF c.recognition = "idle" THEN @
                                ELSE Append(@, c.recognition)]

\* the model follows at most MaxDetached objects of earlier effect runs
CanDetach(c) == c.recognition \in {"none", "idle"} \/ Len(c.detached) < MaxDetached

\* chat-interface.tsx:132-134  toggleVoiceLang
toggleVoiceLang ==
    /\ CanDetach(chat)
    /\ chat' = setVoiceLang(chat, IF chat.voiceLang = "ar-SA" THEN "en-US" ELSE "ar-SA")
    /\ UNCHANGED server

\* chat-interface.tsx:72-78: the messages prop has changed, and its last
\* message holds an Arabic character (lang = "ar-SA") or none
MessagesChanged(lang) ==
    /\ CanDetach(chat)
    /\ chat' = setVoiceLang(chat, lang)
    /\ UNCHANGED server

\* chat-interface.tsx:110-130  toggleRecording.  Without an object, a toast
\* and nothing else (lines 111-120).  stop() leaves the object as it is
\* until its events arrive.  start() on an object that was started and
\* has not ended throws InvalidStateError at line 127, so that line 128
\* is not reached.
toggleRecording ==
    /\ chat' = IF chat.recognition = "none" THEN chat
               ELSE IF chat.isRecording THEN [chat EXCEPT !.isRecording = FALSE]
               ELSE IF chat.recognition = "idle"
               THEN [chat EXCEPT !.recognition = "listening", !.isRecording = TRUE]
               ELSE chat
    /\ UNCHANGED server

\* the SpeechRecognition objects that events can come from: 0 is the one
\* the component holds, j > 0 the j-th of detached
Recognitions(c) == 0..Len(c.detached)

RecognitionState(c, r) == IF r = 0 THEN c.recognition ELSE c.detached[r]

\* the object r delivers its result or an error: its end event is to come
Ending(c, r) ==
    IF r = 0 THEN [c EXCEPT !.recognition = "ending"]
    ELSE [c EXCEPT !.detached[r] = "ending"]

\* the object r has ended: it can be started again, and an object that
\* the component does not hold any more is gone
Ended(c, r) ==
    IF r = 0 THEN [c EXCEPT !.recognition = "idle"]
    ELSE [c EXCEPT !.detached = SubSeq(@, 1, r - 1) \o SubSeq(@, r + 1, Len(@))]

\* chat-interface.tsx:45-49  onresult of the object r
SpeechResult(r, transcript) ==
    /\ r \in Recognitions(chat)
    /\ RecognitionState(chat, r) = "listening"
    /\ Len(chat.input) + 1 + Len(transcript) <= MaxInputLen
    /\ chat' = [Ending(chat, r) EXCEPT
                  !.input = @ \o (IF @ # Empty THEN <<32>> ELSE Empty) \o transcript,
                  !.isRecording = FALSE]
    /\ UNCHANGED server

\* chat-interface.tsx:51-61  onerror of the object r
SpeechError(r) ==
    /\ r \in Recognitions(chat)
    /\ RecognitionState(chat, r) = "listening"
    /\ chat' = [Ending(chat, r) EXCEPT !.isRecording = FALSE]
    /\ UNCHANGED server

\* chat-interface.tsx:63-65  onend of the object r
SpeechEnds(r) ==
    /\ r \in Recognitions(chat)
    /\ RecognitionState(chat, r) \in {"listening", "ending"}
    /\ chat' = [Ended(chat, r) EXCEPT !.isRecording = FALSE]
    /\ UNCHANGED server

\* chat-page.tsx:35-49  the request of the i-th mutate call is answered:
\* onSuccess and onError both call setIsTyping(false)
MutationSettles(i, status) ==
    /\ i \in 1..Len(chat.mutations)
    /\ chat.mutations[i].status = "pending"
    /\ chat' = [chat EXCEPT !.mutations[i].status = status, !.isTyping = FALSE]
    /\ UNCHANGED server

NextChat ==
    \/ \E value \in TypedTexts : handleInput(value)
    \/ handleSubmit
    \/ \E key \in {"Enter", "a"}, shiftKey \in BOOLEAN : handleKeyDown(key, shiftKey)
    \/ toggleRecording
    \/ toggleVoiceLang
    \/ \E lang \in VoiceLangs : MessagesChanged(lang)
    \/ \E r \in 0..MaxDetached, transcript \in Transcripts : SpeechResult(r, transcript)
    \/ \E r \in 0..MaxDetached : SpeechError(r)
    \/ \E r \in 0..MaxDetached : SpeechEnds(r)
    \/ \E i \in 1..MaxSends, status \in {"success", "error"} : MutationSettles(i, status)

\* the page is mounted in a browser with or without SpeechRecognition; the
\* server has not been used
InitChat ==
    /\ conversations = << >>
    /\ messages = << >>
    /\ settingsRows = << >>
    /\ now = 0
    /\ published = {}
    /\ tr = [t \in Turns |-> IdleTurn]
    /\ sc = IdleCaller
    /\ env = "none"
    /\ connectionSettings = [s \in Services |-> NoConnection]
    /\ http = IdleHttp
    /\ tasks = {}
    /\ businessProcesses = {}
    /\ chat \in {Mounted, MountedWithoutSpeech}
    /\ clients = << >>
    /\ statements = << >>

SpecChat == InitChat /\ [][NextChat]_vars

(***************************************************************************)
(* SpecSettings: one caller that invokes getSettings and updateSettings    *)
(* one after the other (storage.ts:171-197), each a sequence of awaits.    *)
(***************************************************************************)
\* Number of getSettings / updateSettings calls the caller makes.
MaxSettingsCalls == 3

Patches ==
    { [hasName |-> TRUE, name |-> NameSam, hasInstructions |-> FALSE, instructions |-> Empty],
      [hasName |-> FALSE, name |-> Empty, hasInstructions |-> TRUE, instructions |-> InstructionsBrief],
      [hasName |-> TRUE, name |-> Empty, hasInstructions |-> TRUE, instructions |-> Empty] }

\* ApplyPatch writing every column of the patch, named or not
ApplyPatchWhole(row, patch, time) ==
    [row EXCEPT
        !.assistantName = patch.name,
        !.systemInstructions = patch.instructions,
        !.updatedAt = time]

\* storage.ts:192  .set({ ...updates, updatedAt: new Date() })
ApplyPatch(row, patch, time) ==
    [row EXCEPT
        !.assistantName = IF patch.hasName THEN patch.name ELSE @,
        !.systemInstructions = IF patch.hasInstructions THEN patch.instructions ELSE @,
        !.updatedAt = time]

\* storage.ts:190-194  update ... where id = currentSettings.id
UpdateRows(id, patch, time) ==
    [i \in 1..Len(settingsRows) |->
        IF settingsRows[i].id = id THEN ApplyPatch(settingsRows[i], patch, time)
        ELSE settingsRows[i]]

\* what a call returns to its caller, with the patch it was given
Returned(op, row) ==
    Append(sc.returned, [op |-> op, ok |-> TRUE, row |-> row, patch |-> sc.patch])

\* a call of getSettings() (op "get") or updateSettings(patch) (op "update")
\* begins; updateSettings starts with this.getSettings(), storage.ts:188
CallSettings(op, patch) ==
    /\ sc.pc = "idle"
    /\ sc.calls < MaxSettingsCalls
    /\ op = "get" <=> patch = NoPatch
    /\ now' = now + 1
    /\ sc' = [sc EXCEPT !.pc = "select", !.op = op, !.patch = patch,
                        !.current = NoSettings, !.calls = @ + 1]
    /\ UNCHANGED <<integration, conversations, messages, settingsRows, published, tr>>

\* CallerSelects without the early return of storage.ts:174-176
CallerSelectsNeverReturns ==
    /\ sc.pc = "select"
    /\ sc' = [sc EXCEPT !.pc = "insert"]
    /\ UNCHANGED <<integration, conversations, messages, settingsRows, now, published, tr>>

\* storage.ts:172-176
CallerSelects ==
    /\ sc.pc = "select"
    /\ \/ /\ settingsRows = << >>
          /\ sc' = [sc EXCEPT !.pc = "insert"]
       \/ \E i \in 1..Len(settingsRows) :
             IF sc.op = "get"
             THEN sc' = [sc EXCEPT !.pc = "idle", !.current = settingsRows[i],
                                   !.returned = Returned("get", settingsRows[i])]
             ELSE sc' = [sc EXCEPT !.pc = "update", !.current = settingsRows[i]]
    /\ UNCHANGED <<integration, conversations, messages, settingsRows, now, published, tr>>

\* storage.ts:179-184
CallerInserts ==
    LET row == DefaultSettingsRow(Len(settingsRows) + 1, now)
    IN  /\ sc.pc = "insert"
        /\ settingsRows' = Append(settingsRows, row)
        /\ IF sc.op = "get"
           THEN sc' = [sc EXCEPT !.pc = "idle", !.current = row,
                                 !.returned = Returned("get", row)]
           ELSE sc' = [sc EXCEPT !.pc = "update", !.current = row]
        /\ UNCHANGED <<integration, conversations, messages, now, published, tr>>

\* storage.ts:190-196
CallerUpdates ==
    /\ sc.pc = "update"
    /\ settingsRows' = UpdateRows(sc.current.id, sc.patch, now)
    /\ sc' = [sc EXCEPT !.pc = "idle",
                        !.returned = Returned("update", ApplyPatch(sc.current, sc.patch, now))]
    /\ UNCHANGED <<integration, conversations, messages, now, published, tr>>

\* a statement rejects: the call throws
CallerFails ==
    /\ sc.pc \in {"select", "insert", "update"}
    /\ sc' = [sc EXCEPT !.pc = "idle",
                        !.returned = Append(@, [op |-> sc.op, ok |-> FALSE, row |-> NoSettings,
                                                patch |-> sc.patch])]
    /\ UNCHANGED <<integration, conversations, messages, settingsRows, now, published, tr>>

NextSettings ==
    \/ CallSettings("get", NoPatch)
    \/ \E patch \in Patches : CallSettings("update", patch)
    \/ CallerSelects
    \/ CallerInserts
    \/ CallerUpdates
    \/ CallerFails

SpecSettings == Init /\ [][NextSettings]_vars

(***************************************************************************)
(* Properties.                                                             *)
(***************************************************************************)

\* C1 (SpecTurn): a turn never creates more than two messages, and a turn
\* with non-empty text that answered 200 has created exactly two: one with
\* role user and, after it, one with role assistant, both under the
\* conversationId of the response.
C1_ExactlyOnePair ==
    \A t \in Turns :
        LET mine == {i \in DOMAIN messages : messages[i].turn = t}
        IN  /\ Cardinality(mine) <= 2
            /\ (tr[t].status = 200 /\ tr[t].content # Empty) =>
                  /\ Cardinality(mine) = 2
                  /\ mine = {tr[t].userMessage, tr[t].aiMessage}
                  /\ tr[t].userMessage < tr[t].aiMessage
                  /\ messages[tr[t].userMessage].createdAt < messages[tr[t].aiMessage].createdAt
                  /\ messages[tr[t].userMessage].role = "user"
                  /\ messages[tr[t].aiMessage].role = "assistant"
                  /\ tr[t].conversationId # 0
                  /\ messages[tr[t].userMessage].conversationId = tr[t].conversationId
                  /\ messages[tr[t].aiMessage].conversationId = tr[t].conversationId

\* a turn without conversationId and with non-empty text has answered 200
C1_Witness ==
    \E t \in Turns :
        /\ tr[t].status = 200 /\ tr[t].content # Empty /\ tr[t].param = 0
        /\ Cardinality({i \in DOMAIN messages : messages[i].turn = t}) = 2

\* C2 (SpecTurn): the steps of a turn happen in the order persist user
\* message, publish it, load history, read settings, enrich, completion
\* call, completion return, persist assistant message, publish it, respond
\* (after creating the conversation, where none was given, and creating the
\* settings row, where none exists); a turn that answered 200 skipped none;
\* the completion call is issued only with the user message stored, and the
\* assistant message is stored only after the completion call has returned.
\* To publish is to send the event to the clients that are open: the event
\* is among the events sent exactly if the step has run with a client open,
\* and with no client open the two publications send nothing.
C2_StepOrder ==
    \A t \in Turns :
        LET steps == <<"persist_user", "publish_user", "load_history", "read_settings",
                       "enrich", "completion_call", "completion_return",
                       "persist_assistant", "publish_assistant", "respond">>
            order == IF SomeOpen THEN steps
                     ELSE SelectSeq(steps, LAMBDA x :
                                       x \notin {"publish_user", "publish_assistant"})
            log == tr[t].log
            core == SelectSeq(log, LAMBDA x : x \notin {"create_conversation", "create_settings"})
            has(x) == \E i \in DOMAIN log : log[i] = x
            stored(id, role) ==
                /\ id \in DOMAIN messages
                /\ messages[id].role = role /\ messages[id].turn = t
        IN  /\ Len(core) <= Len(order) /\ core = SubSeq(order, 1, Len(core))
            /\ tr[t].status = 200 => core = order
            /\ \A i \in DOMAIN log :
                  /\ log[i] = "create_conversation" => i = 1 /\ tr[t].param = 0
                  /\ log[i] = "create_settings" => i > 1 /\ log[i - 1] = "read_settings"
            /\ has("persist_user") <=> stored(tr[t].userMessage, "user")
            /\ has("publish_user") <=>
                  [type |-> "message_created", data |-> tr[t].userMessage] \in published
            /\ has("completion_call") <=> tr[t].request # NoRequest
            /\ has("completion_return") <=> tr[t].outcome # NoOutcome
            /\ has("persist_assistant") <=> stored(tr[t].aiMessage, "assistant")
            /\ has("publish_assistant") <=>
                  [type |-> "message_created", data |-> tr[t].aiMessage] \in published
            /\ has("respond") <=> tr[t].status = 200

\* a turn has run every step, the two creations included, and both
\* events were sent
C2_Witness ==
    \E t \in Turns :
        /\ [type |-> "message_created", data |-> tr[t].userMessage] \in published
        /\ [type |-> "message_created", data |-> tr[t].aiMessage] \in published
        /\ tr[t].log = <<"create_conversation", "persist_user", "publish_user",
                         "load_history", "read_settings", "create_settings", "enrich",
                         "completion_call", "completion_return", "persist_assistant",
                         "publish_assistant", "respond">>

\* C3 (SpecTurn): when the completion call threw, the assistant message
\* stored for the turn is the rate-limit string if the error message holds
\* '429' or 'rate limit'; else the connectivity string if it holds
\* 'timeout' or 'ECONNREFUSED'; else the generic string.
C3_FallbackMapping ==
    \A t \in Turns :
        (tr[t].aiMessage # 0 /\ tr[t].outcome.kind = "throw") =>
            LET stored == messages[tr[t].aiMessage].content
                error == tr[t].outcome
                rate == error.flag /\ (Includes(error.text, Mark429)
                                       \/ Includes(error.text, MarkRateLimit))
                conn == error.flag /\ (Includes(error.text, MarkTimeout)
                                       \/ Includes(error.text, MarkRefused))
            IN  /\ rate => stored = RateLimitFallback
                /\ (conn /\ ~rate) => stored = ConnectivityFallback
                /\ (~conn /\ ~rate) => stored = GenericFallback

\* an error with '429' in its message was answered by the rate-limit string
C3_Witness ==
    \E t \in Turns :
        /\ tr[t].aiMessage # 0
        /\ tr[t].outcome = Throw(Msg429)
        /\ messages[tr[t].aiMessage].content = RateLimitFallback

\* C4 (SpecTurn): when the completion call threw, whatever it threw,
\* generateAIResponse has returned one of the three fallback strings instead
\* of throwing and the turn goes on to store it; the turn ends with 200 and
\* the assistant message holding that string. The only other end of such a
\* turn is a store operation of that createMessage rejecting (the case of
\* C5), never the completion error itself.
C4_ThrowIsAbsorbed ==
    \A t \in Turns :
        tr[t].outcome.kind = "throw" =>
            /\ tr[t].aiContent \in {RateLimitFallback, ConnectivityFallback, GenericFallback}
            /\ tr[t].pc \in {"insertAssistant", "bumpAssistant", "done"}
            /\ tr[t].pc = "bumpAssistant" =>
                  messages[tr[t].aiMessage].content = tr[t].aiContent
            /\ tr[t].pc = "done" =>
                  \/ /\ tr[t].status = 200
                     /\ tr[t].aiMessage # 0
                     /\ messages[tr[t].aiMessage].role = "assistant"
                     /\ messages[tr[t].aiMessage].content = tr[t].aiContent
                  \/ /\ tr[t].status = 500
                     /\ tr[t].failedAt \in {"insertAssistant", "bumpAssistant"}

\* the completion call threw an error without message and the turn answered 200
C4_Witness ==
    \E t \in Turns :
        /\ tr[t].outcome = ThrowNoMessage
        /\ tr[t].status = 200
        /\ messages[tr[t].aiMessage].content = GenericFallback

\* C5 as stated: a turn in which a store operation failed has answered 500
\* and no assistant message of that turn is stored.
C5_AsStated ==
    \A t \in Turns :
        tr[t].failedAt # "none" =>
            /\ tr[t].status = 500
            /\ ~ \E i \in DOMAIN messages :
                    messages[i].turn = t /\ messages[i].role = "assistant"

\* C6 (SpecTurn): when the mail connector threw in a turn whose text holds
\* a mail and a calendar keyword, the prompt sent holds nothing of the mail
\* block, its context is the calendar block alone, which is what follows
\* the mail block when the mail connector succeeds, and the turn goes on to
\* the completion call; it ends with 200 and an assistant message stored.
\* The only other end of such a turn is a later store operation rejecting
\* (the case of C5), never the mail error itself.
C6_EmailFailureIsolated ==
    \A t \in Turns :
        ( /\ tr[t].request # NoRequest
          /\ tr[t].em.list = "throw" \/ tr[t].em.count = "throw"
          /\ tr[t].cal # NoCalendarCall ) =>
            LET system == tr[t].request.system
                latest == tr[t].content
                mailTexts == {MailInvoice.from, MailInvoice.subject, MailInvoice.date,
                              MailInvoice.snippet}
                mailLits == {"<nl><nl>Recent Email Context:<nl>", "You have ",
                             " unread emails.<nl>", "Recent emails:<nl>", ". From: ",
                             "<nl>   Subject: ", "<nl>   Date: ", "<nl>   Snippet: "}
                n == Len(tr[t].businessContext)
            IN  /\ IsEmailIntent(latest) /\ IsCalendarIntent(latest)
                /\ \A i \in DOMAIN system :
                      system[i].k \notin mailLits /\ system[i].v \notin mailTexts
                /\ \A ok \in {e \in EmailOutcomes : e.list = "ok" /\ e.count = "ok"} :
                      enrichContextWithBusinessData(latest, ok, tr[t].cal)
                         = EmailBlock(ok.emails, ok.unread) \o tr[t].businessContext
                /\ tr[t].cal.list = "ok" =>
                      /\ n > 0
                      /\ tr[t].businessContext = CalendarBlock(tr[t].cal.events)
                      /\ SubSeq(system, Len(system) - n + 1, Len(system)) = tr[t].businessContext
                /\ tr[t].cal.list = "throw" => n = 0
                /\ tr[t].pc \in {"awaitCompletion", "insertAssistant", "bumpAssistant", "done"}
                /\ tr[t].pc = "done" =>
                      \/ tr[t].status = 200 /\ tr[t].aiMessage \in DOMAIN messages
                      \/ /\ tr[t].status = 500
                         /\ tr[t].failedAt \in {"insertAssistant", "bumpAssistant"}

\* listMessages threw, the calendar returned Board Sync, the turn answered 200
C6_Witness ==
    \E t \in Turns :
        /\ tr[t].em.list = "throw"
        /\ tr[t].cal = CalendarOutcome("ok", <<EventBoardSync>>)
        /\ tr[t].status = 200
        /\ \E i \in DOMAIN tr[t].request.system : tr[t].request.system[i].v = BoardSync

\* C7 (SpecTurn): the prompt sent is the Arabic template if the last user
\* message of the history holds a code unit in U+0600-U+06FF, U+0750-U+077F,
\* U+08A0-U+08FF, U+FB50-U+FDFF or U+FE70-U+FEFF, and the English template
\* otherwise (the empty text included), whatever the earlier messages hold.
C7_TemplateFollowsLatest ==
    \A t \in Turns :
        tr[t].request # NoRequest =>
            LET msgs == tr[t].request.messages
                users == {i \in DOMAIN msgs : msgs[i].role = "user"}
                last == CHOOSE i \in users : \A j \in users : j <= i
                latest == IF users = {} THEN Empty ELSE msgs[last].content
                arabic == \E i \in DOMAIN latest :
                             \/ 1536 <= latest[i] /\ latest[i] <= 1791
                             \/ 1872 <= latest[i] /\ latest[i] <= 1919
                             \/ 2208 <= latest[i] /\ latest[i] <= 2303
                             \/ 64336 <= latest[i] /\ latest[i] <= 65023
                             \/ 65136 <= latest[i] /\ latest[i] <= 65279
                system == tr[t].request.system
            IN  /\ latest = tr[t].content
                /\ arabic =>
                      /\ system[1].k = "ar:head"
                      /\ system[3].k = "ar:instructions"
                      /\ system[5].k = "ar:capabilities"
                /\ ~arabic =>
                      /\ system[1].k = "en:head"
                      /\ system[3].k = "en:instructions"
                      /\ system[5].k = "en:capabilities"

\* an English text after an earlier turn in Arabic got the English template
C7_Witness ==
    \E t \in Turns :
        /\ tr[t].request # NoRequest
        /\ Len(tr[t].request.messages) = 3
        /\ tr[t].request.messages[1].content = TextArabicMail
        /\ tr[t].content = TextCalendar
        /\ tr[t].request.system[1].k = "en:head"

\* C8 (SpecTurn): a turn without conversationId creates a conversation
\* whose title is the first 50 code units of the text, followed by "..."
\* exactly if the text is longer than 50; a title is at most 53 long.
C8_TitleOfNewConversation ==
    \A t \in Turns :
        /\ (tr[t].param = 0 /\ tr[t].userMessage # 0) => tr[t].conversationId # 0
        /\ (tr[t].param = 0 /\ tr[t].conversationId # 0) =>
              /\ tr[t].conversationId \in DOMAIN conversations
              /\ LET title == conversations[tr[t].conversationId].title
                     text == tr[t].content
                     kept == IF Len(text) > 50 THEN 50 ELSE Len(text)
                 IN  /\ Len(title) = IF Len(text) > 50 THEN 53 ELSE Len(text)
                     /\ \A i \in 1..kept : title[i] = text[i]
                     /\ \A i \in (kept + 1)..Len(title) : title[i] = 46
                     /\ Len(title) <= 53

\* a text of 51 code units got a title of 53, a text of 50 would keep 50
C8_Witness ==
    \E t \in Turns :
        /\ tr[t].param = 0 /\ tr[t].conversationId # 0
        /\ tr[t].content = TextFiftyOne
        /\ Len(conversations[tr[t].conversationId].title) = 53

\* C9 (SpecSettings): the settings table never holds more than one row when
\* the calls follow one another; it holds one once a getSettings has
\* returned; and two getSettings with no updateSettings between them return
\* the same row.
C9_GetSettingsIdempotent ==
    LET r == sc.returned
    IN  /\ Len(settingsRows) <= 1
        /\ \A i \in DOMAIN r :
              (r[i].op = "get" /\ r[i].ok) => Len(settingsRows) = 1
        /\ \A i, j \in DOMAIN r :
              ( /\ i < j
                /\ r[i].op = "get" /\ r[i].ok
                /\ r[j].op = "get" /\ r[j].ok
                /\ \A k \in (i + 1)..(j - 1) : r[k].op = "get" ) =>
                 r[i].row = r[j].row

\* getSettings has returned twice in a row, the first call created the row
C9_Witness ==
    /\ Len(sc.returned) >= 2
    /\ sc.returned[1].op = "get" /\ sc.returned[1].ok
    /\ sc.returned[2].op = "get" /\ sc.returned[2].ok
    /\ sc.returned[2].row = DefaultSettingsRow(1, 1)
    /\ Len(settingsRows) = 1

\* C10 as stated (Spec): the settings table holds at most one row in every
\* reachable state, also when requests interleave.
C10_AsStated == Len(settingsRows) <= 1

\* the roles of the first n messages of a conversation, counted
CountRole(rows, n, role) == Cardinality({i \in 1..n : rows[i].role = role})

\* C11 (Spec): in every reachable state, also when the turns interleave on
\* one conversation, every assistant message comes after the user message
\* of its own turn, created later and under the same conversation, and
\* every prefix of a conversation's messages in creation order holds at
\* least as many user messages as assistant messages.
C11_UserBeforeAssistant ==
    /\ \A i \in DOMAIN messages :
          messages[i].role = "assistant" =>
              \E j \in 1..(i - 1) :
                  /\ messages[j].role = "user"
                  /\ messages[j].turn = messages[i].turn
                  /\ messages[j].conversationId = messages[i].conversationId
                  /\ messages[j].createdAt < messages[i].createdAt
    /\ \A c \in DOMAIN conversations :
          LET rows == getMessages(c)
          IN  \A n \in 0..Len(rows) :
                  CountRole(rows, n, "user") >= CountRole(rows, n, "assistant")

\* two turns on one conversation have interleaved: the second turn's user
\* message stands between the first turn's user and assistant messages
C11_Witness ==
    \E c \in DOMAIN conversations :
        LET rows == getMessages(c)
        IN  /\ Len(rows) = 4
            /\ rows[1].role = "user" /\ rows[1].turn = 1
            /\ rows[2].role = "user" /\ rows[2].turn = 2
            /\ rows[3].role = "assistant" /\ rows[3].turn = 1
            /\ rows[4].role = "assistant" /\ rows[4].turn = 2

\* the end of a turn: 200 with its assistant message stored and not empty,
\* or 500
EndsWell(t) ==
    \/ /\ tr[t].status = 200
       /\ tr[t].aiMessage \in DOMAIN messages
       /\ messages[tr[t].aiMessage].turn = t
       /\ messages[tr[t].aiMessage].role = "assistant"
       /\ messages[tr[t].aiMessage].content # Empty
       /\ messages[tr[t].aiMessage].content = tr[t].aiContent
    \/ tr[t].status = 500

\* C12 (SpecTurnFair): a turn that has started ends, given that every
\* awaited call returns or throws; it ends with 200 and a stored, non-empty
\* assistant message (the reply, the apology or a fallback), or with 500;
\* no status is set before the end and none is 200 without that message.
C12_TurnTerminates ==
    /\ [](\A t \in Turns :
            /\ tr[t].pc = "done" => EndsWell(t)
            /\ tr[t].pc # "done" => tr[t].status = 0
            /\ tr[t].status \in {0, 200, 500})
    /\ \A t \in Turns : (tr[t].pc # "idle") ~> (tr[t].pc = "done")

\* a turn whose completion call returned an empty reply has answered 200
\* with the apology stored
C12_Witness ==
    \E t \in Turns :
        /\ tr[t].pc = "done" /\ tr[t].status = 200
        /\ tr[t].outcome = Reply(Empty)
        /\ messages[tr[t].aiMessage].content = ApologyReply

\* C13 as stated (SpecTurn): a request with empty text, or with a
\* conversationId that names no conversation, creates no conversation and
\* no message, makes no completion call and is answered with a 4xx status.
C13_AsStated ==
    \A t \in Turns :
        ( /\ tr[t].pc # "idle"
          /\ \/ tr[t].content = Empty
             \/ tr[t].param # 0 /\ tr[t].param \notin DOMAIN conversations ) =>
            /\ tr[t].log = << >>
            /\ tr[t].request = NoRequest
            /\ ~ \E i \in DOMAIN messages : messages[i].turn = t
            /\ tr[t].pc = "done" /\ tr[t].status \in 400..499

\* C14 as stated (SpecNotify): a turn in which a broadcast of
\* message_created threw has gone on to the completion call, has stored
\* its assistant message and has answered 200.
C14_AsStated ==
    \A t \in Turns :
        tr[t].failedAt \in {"publishUser", "publishAssistant"} =>
            /\ tr[t].request # NoRequest
            /\ tr[t].aiMessage \in DOMAIN messages
            /\ tr[t].status = 200

\* C15 as stated (SpecGenerate): with an override prompt the system message
\* sent is exactly the override: no template, no name or instructions of
\* the settings, no enrichment block.
C15_AsStated ==
    \A t \in Turns :
        (tr[t].request # NoRequest /\ tr[t].systemContext # Empty) =>
            tr[t].request.system = << Txt(tr[t].systemContext) >>

\* C15 (SpecGenerate), amended: a non-empty override prompt replaces the
\* template with the name and instructions of the settings: the system
\* message sent starts with the override and holds no segment of either
\* template; enrichment still runs on the latest user message, and the
\* override is followed by a blank line and the enrichment block exactly
\* when that block is not empty.  An empty override counts as none: the
\* template of the language of the latest user message is sent.
C15_OverrideReplacesTemplate ==
    \A t \in Turns :
        tr[t].request # NoRequest =>
            LET system == tr[t].request.system
                context == tr[t].businessContext
                latest == latestUserMessage(tr[t].history)
                templates == {"ar:head", "ar:instructions", "ar:capabilities",
                              "en:head", "en:instructions", "en:capabilities"}
            IN  /\ context = enrichContextWithBusinessData(latest, tr[t].em, tr[t].cal)
                /\ tr[t].em # NoEmailCall <=> (latest # Empty /\ IsEmailIntent(latest))
                /\ tr[t].cal # NoCalendarCall <=> (latest # Empty /\ IsCalendarIntent(latest))
                /\ tr[t].systemContext # Empty =>
                      /\ system[1] = Txt(tr[t].systemContext)
                      /\ \A i \in DOMAIN system : system[i].k \notin templates
                      /\ \A i \in DOMAIN system :
                            system[i].k = "text" /\ i > 1 =>
                               \E j \in DOMAIN context : context[j] = system[i]
                      /\ context = << >> => Len(system) = 1
                      /\ context # << >> =>
                            /\ Len(system) = Len(context) + 2
                            /\ system[2] = Lit("<nl><nl>")
                            /\ SubSeq(system, 3, Len(system)) = context
                /\ tr[t].systemContext = Empty =>
                      system[1].k = IF containsArabic(latest) THEN "ar:head" ELSE "en:head"

\* an override was passed with a text holding a calendar keyword, the
\* calendar returned Board Sync, and the prompt sent holds both
C15_Witness ==
    \E t \in Turns :
        /\ tr[t].request # NoRequest
        /\ tr[t].systemContext = OverridePrompt
        /\ tr[t].cal = CalendarOutcome("ok", <<EventBoardSync>>)
        /\ tr[t].request.system[1] = Txt(OverridePrompt)
        /\ \E i \in DOMAIN tr[t].request.system : tr[t].request.system[i].v = BoardSync

\* C16 (Spec): turns that run concurrently on different conversations do
\* not interfere.  Every message is stored under the conversation its turn
\* resolved; and a turn that is the only one on its conversation finds
\* and leaves it as when the turns run one after another: the history it
\* loads and sends to the completion call is its own user message alone,
\* and the conversation holds its user message, then its assistant message
\* with the content generateAIResponse returned, and nothing else.
C16_NoInterference ==
    /\ \A i \in DOMAIN messages :
          /\ messages[i].turn \in Turns
          /\ messages[i].conversationId = tr[messages[i].turn].conversationId
    /\ \A t \in Turns :
          ( /\ tr[t].conversationId # 0
            /\ \A u \in Turns \ {t} : tr[u].conversationId # tr[t].conversationId ) =>
              LET rows == SelectSeq(messages,
                            LAMBDA m : m.conversationId = tr[t].conversationId)
                  own == << [role |-> "user", content |-> tr[t].content] >>
              IN  /\ Len(rows) <= 2
                  /\ \A i \in DOMAIN rows : rows[i].turn = t
                  /\ tr[t].userMessage # 0 =>
                        rows[1].role = "user" /\ rows[1].content = tr[t].content
                  /\ tr[t].aiMessage # 0 =>
                        /\ Len(rows) = 2
                        /\ rows[2].role = "assistant"
                        /\ rows[2].content = tr[t].aiContent
                  /\ "load_history" \in {tr[t].log[i] : i \in DOMAIN tr[t].log} =>
                        tr[t].history = own
                  /\ tr[t].request # NoRequest => tr[t].request.messages = own

\* two turns on two conversations have interleaved and both answered 200
C16_Witness ==
    /\ tr[1].status = 200 /\ tr[2].status = 200
    /\ tr[1].conversationId # tr[2].conversationId
    /\ tr[2].userMessage < tr[1].aiMessage
    /\ tr[1].aiMessage < tr[2].aiMessage
    /\ Len(tr[1].request.messages) = 1 /\ Len(tr[2].request.messages) = 1

\* C17 (Spec): turns on one conversation are not serialized.  No step of a
\* turn waits for another turn: a turn that is about to store a message or
\* to load the history can do so in every state, whatever the other turns
\* are doing; the history a turn has loaded and sent is what the
\* conversation held at that time, a prefix of what it holds now.  So the
\* execution of the witness is reachable.
C17_NoSerialization ==
    \A t \in Turns :
        /\ tr[t].pc = "insertUser" => ENABLED InsertUserMessage(t)
        /\ tr[t].pc = "getMessages" => ENABLED LoadHistory(t)
        /\ tr[t].pc = "insertAssistant" => ENABLED InsertAssistantMessage(t)
        /\ tr[t].request # NoRequest =>
              LET rows == RoleContent(SelectSeq(messages,
                              LAMBDA m : m.conversationId = tr[t].conversationId))
                  sent == tr[t].request.messages
              IN  /\ sent = tr[t].history
                  /\ Len(sent) <= Len(rows)
                  /\ sent = SubSeq(rows, 1, Len(sent))

\* two turns on one conversation both stored their user message and both
\* loaded the history before either assistant message was written: both
\* completion calls got the two user messages and no reply, and the
\* conversation holds user, user, assistant, assistant
C17_Witness ==
    /\ tr[1].conversationId = tr[2].conversationId
    /\ tr[1].aiMessage # 0 /\ tr[2].aiMessage # 0
    /\ LET rows == SelectSeq(messages, LAMBDA m : m.conversationId = tr[1].conversationId)
           twoUsers == << [role |-> "user", content |-> rows[1].content],
                          [role |-> "user", content |-> rows[2].content] >>
       IN  /\ Len(rows) = 4
           /\ <<rows[1].role, rows[2].role, rows[3].role, rows[4].role>>
                 = <<"user", "user", "assistant", "assistant">>
           /\ rows[1].turn # rows[2].turn
           /\ tr[1].request.messages = twoUsers
           /\ tr[2].request.messages = twoUsers

\* C18 as stated (SpecIntegrations): a request to a Gmail or Calendar route
\* that was served while the integration was not connected (no identity in
\* the environment, or a connection without access token, or none) has
\* been answered with 503 and available: false.
C18_AsStated ==
    ( /\ http.pc = "responded"
      /\ http.service \in Services
      /\ http.valid
      /\ http.connected = "no" ) =>
        /\ http.status = 503
        /\ http.available = "false"

\* C19 as stated (SpecCurrent): a GET /api/messages/current that was
\* answered with 200 returned the messages, in order, of the conversation
\* with the greatest updatedAt at that time, or the empty list when there
\* was no conversation.
C19_AsStated ==
    ( /\ http.pc = "responded"
      /\ http.service = "messages"
      /\ http.param = CurrentSegment
      /\ http.status = 200 ) =>
        http.body \in http.latest

\* C20 as stated (SpecTurn): generateAIResponse returns a fallback string
\* only after the completion call has failed in the first attempt and in
\* each of the 7 retries.
C20_AsStated ==
    \A t \in Turns :
        ( /\ tr[t].outcome.kind = "throw"
          /\ tr[t].aiContent \in {RateLimitFallback, ConnectivityFallback, GenericFallback} ) =>
            CompletionCalls(t) = 1 + MaxRetries

\* C21 (SpecTurn): the messages of the completion request are the composed
\* system prompt, then the history the turn loaded, each row as {role,
\* content}; the history loaded is every message the conversation holds at
\* the time of the load, in the order of createdAt, none left out and none
\* out of place, and it is not changed afterwards; with the turns of the
\* conversation running one at a time (the earlier ones have ended), its
\* last element is the user message this turn has just stored.
C21_FullHistorySent ==
    /\ [](\A t \in Turns :
            tr[t].request # NoRequest =>
                LET sent == completionMessages(tr[t].request.system, tr[t].request.messages)
                    latest == latestUserMessage(tr[t].history)
                IN  /\ Len(sent) = Len(tr[t].history) + 1
                    /\ sent[1].role = "system"
                    /\ sent[1].content =
                          fullSystemMessage(tr[t].settings, containsArabic(latest),
                                            Empty, tr[t].businessContext)
                    /\ \A i \in DOMAIN tr[t].history : sent[i + 1] = tr[t].history[i])
    /\ [][\A t \in Turns :
            /\ tr[t].pc \notin {"idle", "getMessages"} => tr'[t].history = tr[t].history
            /\ (tr[t].pc = "getMessages" /\ tr'[t].pc = "selectSettings") =>
                  LET stored == {i \in DOMAIN messages :
                                    messages[i].conversationId = tr[t].conversationId}
                      nth(k) == CHOOSE i \in stored :
                                    Cardinality({j \in stored :
                                        messages[j].createdAt < messages[i].createdAt}) = k - 1
                      h == tr'[t].history
                  IN  /\ Len(h) = Cardinality(stored)
                      /\ \A k \in 1..Len(h) :
                            h[k] = [role |-> messages[nth(k)].role,
                                    content |-> messages[nth(k)].content]
                      /\ Len(h) >= 1
                      /\ nth(Len(h)) = tr[t].userMessage
                      /\ h[Len(h)] = [role |-> "user", content |-> tr[t].content]
         ]_vars

\* a turn on a conversation that held an earlier turn has sent that turn's
\* user and assistant message and then its own user message
C21_Witness ==
    \E t \in Turns :
        /\ tr[t].request # NoRequest
        /\ tr[t].param = 1
        /\ tr[t].content = TextCalendar
        /\ tr[t].request.messages =
              << [role |-> "user", content |-> TextArabicMail],
                 [role |-> "assistant", content |-> ReplyOk],
                 [role |-> "user", content |-> TextCalendar] >>

\* C22 as stated (Spec): in every turn, also when turns run concurrently
\* on one conversation, the text that decides the language of the template
\* and the connector calls of the enrichment is the text submitted in that
\* turn.
C22_AsStated ==
    \A t \in Turns :
        tr[t].request # NoRequest =>
            /\ latestUserMessage(tr[t].history) = tr[t].content
            /\ tr[t].request.system[1].k =
                  IF containsArabic(tr[t].content) THEN "ar:head" ELSE "en:head"
            /\ tr[t].em # NoEmailCall <=>
                  (tr[t].content # Empty /\ IsEmailIntent(tr[t].content))
            /\ tr[t].cal # NoCalendarCall <=>
                  (tr[t].content # Empty /\ IsCalendarIntent(tr[t].content))

\* C23 (SpecTurn): in the enrichment of a turn the mail connector is called
\* exactly if the latest user message holds 'email', 'mail' or 'inbox' in
\* any case or one of the three Arabic mail keywords, the calendar
\* connector exactly if it holds 'calendar', 'meeting', 'schedule' or
\* 'event' in any case or one of the four Arabic calendar keywords; either
\* decision is taken whatever the other is; the empty message leads to no
\* call and to the empty context, and so does a message without keyword;
\* when both blocks are produced the context is the mail block followed by
\* the calendar block.
C23_KeywordsDecideCalls ==
    \A t \in Turns :
        tr[t].request # NoRequest =>
            LET latest == latestUserMessage(tr[t].history)
                lower == [i \in DOMAIN latest |->
                            IF 65 <= latest[i] /\ latest[i] <= 90
                            THEN latest[i] + 32 ELSE latest[i]]
                has(s, kw) == \E i \in 0..(Len(s) - Len(kw)) :
                                 \A j \in 1..Len(kw) : s[i + j] = kw[j]
                mail == \/ \E kw \in {KwEmail, KwMail, KwInbox} : has(lower, kw)
                        \/ \E kw \in {KwArBarid, KwArRasael, KwArEmail} : has(latest, kw)
                calendar == \/ \E kw \in {KwCalendar, KwMeeting, KwSchedule, KwEvent} :
                                  has(lower, kw)
                            \/ \E kw \in {KwArTaqwim, KwArIjtimaa, KwArMawid, KwArJadwal} :
                                  has(latest, kw)
                context == tr[t].businessContext
                mailHead == Lit("<nl><nl>Recent Email Context:<nl>")
                calendarHead == Lit("<nl><nl>Upcoming Calendar Events:<nl>")
                at(head) == {i \in DOMAIN context : context[i] = head}
            IN  /\ tr[t].em.list # "none" <=> mail
                /\ tr[t].cal.list # "none" <=> calendar
                /\ tr[t].em.count # "none" => tr[t].em.list = "ok"
                /\ latest = Empty => ~mail /\ ~calendar
                /\ (~mail /\ ~calendar) => context = << >>
                /\ at(mailHead) # {} <=> (tr[t].em.list = "ok" /\ tr[t].em.count = "ok")
                /\ at(calendarHead) # {} <=> tr[t].cal.list = "ok"
                /\ (at(mailHead) # {} /\ at(calendarHead) # {}) =>
                      /\ at(mailHead) = {1}
                      /\ \E c \in at(calendarHead) :
                            /\ at(calendarHead) = {c}
                            /\ SubSeq(context, 1, c - 1)
                                  = EmailBlock(tr[t].em.emails, tr[t].em.unread)
                            /\ SubSeq(context, c, Len(context))
                                  = CalendarBlock(tr[t].cal.events)

\* "Mail meeting" led to both connectors being called and both blocks
C23_Witness ==
    \E t \in Turns :
        /\ tr[t].request # NoRequest
        /\ tr[t].content = TextMailMeeting
        /\ tr[t].em = EmailOutcome("ok", <<MailInvoice>>, "ok", 3)
        /\ tr[t].cal = CalendarOutcome("ok", <<EventBoardSync>>)
        /\ tr[t].businessContext[1] = Lit("<nl><nl>Recent Email Context:<nl>")
        /\ \E i \in DOMAIN tr[t].businessContext :
              tr[t].businessContext[i] = Lit("<nl><nl>Upcoming Calendar Events:<nl>")

\* C24 (SpecTurn): the mail block is added whole or not at all.  When both
\* calls of the mail connector returned, the context starts with the whole
\* block; when listMessages returned and getUnreadCount threw, or
\* listMessages threw (getUnreadCount is then not called), neither the
\* context nor the prompt sent holds a header, a line or an item of the
\* mail block; and in each case the enrichment has returned: once the
\* turn has left the enrichment, the completion request has been made.
C24_EmailBlockAllOrNothing ==
    \A t \in Turns :
        (tr[t].em # NoEmailCall /\ tr[t].pc # "enriching") =>
            LET context == tr[t].businessContext
                system == tr[t].request.system
                block == EmailBlock(tr[t].em.emails, tr[t].em.unread)
                mailTexts == {MailInvoice.from, MailInvoice.subject, MailInvoice.date,
                              MailInvoice.snippet}
                mailLits == {"<nl><nl>Recent Email Context:<nl>", "You have ",
                             " unread emails.<nl>", "Recent emails:<nl>", ". From: ",
                             "<nl>   Subject: ", "<nl>   Date: ", "<nl>   Snippet: "}
                ofMail(seg) == seg.k \in mailLits \/ seg.v \in mailTexts
            IN  /\ tr[t].request # NoRequest
                /\ tr[t].pc \in {"awaitCompletion", "insertAssistant", "bumpAssistant", "done"}
                /\ tr[t].em.list = "throw" => tr[t].em.count = "none"
                /\ (tr[t].em.list = "ok" /\ tr[t].em.count = "ok") =>
                      /\ Len(context) >= Len(block)
                      /\ SubSeq(context, 1, Len(block)) = block
                      /\ \A i \in DOMAIN context : ofMail(context[i]) => i <= Len(block)
                /\ (tr[t].em.list = "throw" \/ tr[t].em.count = "throw") =>
                      /\ \A i \in DOMAIN context : ~ofMail(context[i])
                      /\ \A i \in DOMAIN system : ~ofMail(system[i])
                      /\ context = IF tr[t].cal.list = "ok"
                                   THEN CalendarBlock(tr[t].cal.events) ELSE << >>

\* listMessages returned a mail, getUnreadCount threw, and the completion
\* request went out with an empty context
C24_Witness ==
    \E t \in Turns :
        /\ tr[t].em = EmailOutcome("ok", <<MailInvoice>>, "throw", 0)
        /\ tr[t].cal = NoCalendarCall
        /\ tr[t].businessContext = << >>
        /\ tr[t].pc = "awaitCompletion"

\* C25 (SpecTurn): every assistant message a turn has stored has a content
\* that is not empty.  What generateAIResponse returns is never empty: the
\* reply text when there is one, the apology when the completion call
\* returned no choice or an empty or missing text, and one of the three
\* fallback strings, none of them empty, when it threw.
C25_AssistantContentNonEmpty ==
    /\ \A i \in DOMAIN messages :
          messages[i].role = "assistant" => Len(messages[i].content) > 0
    /\ \A t \in Turns :
          /\ tr[t].aiMessage # 0 =>
                /\ messages[tr[t].aiMessage].role = "assistant"
                /\ messages[tr[t].aiMessage].content = tr[t].aiContent
          /\ tr[t].outcome # NoOutcome =>
                /\ Len(tr[t].aiContent) > 0
                /\ (tr[t].outcome.kind = "reply" /\ tr[t].outcome.flag
                    /\ tr[t].outcome.text # Empty) => tr[t].aiContent = tr[t].outcome.text
                /\ (tr[t].outcome.kind = "reply"
                    /\ (~tr[t].outcome.flag \/ tr[t].outcome.text = Empty)) =>
                       tr[t].aiContent = ApologyReply
                /\ tr[t].outcome.kind = "throw" =>
                       tr[t].aiContent \in
                          {s \in {RateLimitFallback, ConnectivityFallback, GenericFallback} :
                              Len(s) > 0}
    /\ Len(ApologyReply) > 0

\* the completion call returned no choices and the apology was stored
C25_Witness ==
    \E t \in Turns :
        /\ tr[t].outcome = NoChoices
        /\ tr[t].aiMessage # 0
        /\ messages[tr[t].aiMessage].content = ApologyReply

\* C26 as stated (Spec): in every reachable state every conversation has
\* updatedAt >= createdAt; and for every message whose createMessage call
\* has returned (its insert and its update of the conversation are both
\* done), the conversation it belongs to has an updatedAt not earlier than
\* the createdAt of the message, also when the inserts and updates of
\* several calls on one conversation interleave.
C26_AsStated ==
    /\ \A c \in DOMAIN conversations :
          conversations[c].updatedAt >= conversations[c].createdAt
    /\ \A t \in Turns, c \in DOMAIN conversations :
          conversations[c].id = tr[t].conversationId =>
              /\ ( /\ tr[t].userMessage # 0
                   /\ tr[t].pc # "bumpUser" /\ tr[t].failedAt # "bumpUser" ) =>
                    conversations[c].updatedAt >= messages[tr[t].userMessage].createdAt
              /\ ( /\ tr[t].aiMessage # 0
                   /\ tr[t].pc # "bumpAssistant" /\ tr[t].failedAt # "bumpAssistant" ) =>
                    conversations[c].updatedAt >= messages[tr[t].aiMessage].createdAt

\* C27 (SpecSettings): updateSettings gets or creates the row and patches
\* it.  After it has returned the table holds one row, the row returned;
\* a field the patch names has the value of the patch, a field it does not
\* name has the value it had before the call (the column default when the
\* call created the row), and the id is unchanged; the same patch applied
\* a second time leaves assistantName and systemInstructions as after the
\* first time; and a getSettings after it, with no other updateSettings
\* between, returns the patched row.
C27_UpdateSettingsPatches ==
    LET r == sc.returned
        done == {i \in DOMAIN r : r[i].ok}
        before(i) == {k \in done : k < i}
        last(i) == CHOOSE k \in before(i) : \A m \in before(i) : m <= k
        nameBefore(i) == IF before(i) = {} THEN DefaultAssistantName
                         ELSE r[last(i)].row.assistantName
        instructionsBefore(i) == IF before(i) = {} THEN DefaultInstructionsDb
                                 ELSE r[last(i)].row.systemInstructions
    IN  /\ \A i \in done :
              r[i].op = "update" =>
                  /\ r[i].row.id = 1
                  /\ r[i].row.assistantName =
                        IF r[i].patch.hasName THEN r[i].patch.name ELSE nameBefore(i)
                  /\ r[i].row.systemInstructions =
                        IF r[i].patch.hasInstructions THEN r[i].patch.instructions
                        ELSE instructionsBefore(i)
                  /\ before(i) # {} =>
                        /\ r[last(i)].row.id = r[i].row.id
                        /\ r[last(i)].row.updatedAt <= r[i].row.updatedAt
        /\ (done # {} /\ sc.pc = "idle") =>
              LET k == CHOOSE k \in done : \A m \in done : m <= k
              IN  settingsRows = << r[k].row >>
        /\ \A i, j \in done :
              (i < j /\ r[i].op = "update" /\ r[j].op = "update"
               /\ r[i].patch = r[j].patch
               /\ \A k \in (i + 1)..(j - 1) : r[k].op = "get" \/ ~r[k].ok) =>
                  /\ r[j].row.assistantName = r[i].row.assistantName
                  /\ r[j].row.systemInstructions = r[i].row.systemInstructions
        /\ \A i, j \in done :
              (i < j /\ r[i].op = "update" /\ r[j].op = "get"
               /\ \A k \in (i + 1)..(j - 1) : r[k].op = "get" \/ ~r[k].ok) =>
                  r[j].row = r[i].row

\* on an empty table the name was patched twice with the same patch, and a
\* getSettings then returned the patched name with the default instructions
C27_Witness ==
    /\ Len(sc.returned) = 3
    /\ \A i \in 1..3 : sc.returned[i].ok
    /\ sc.returned[1].op = "update" /\ sc.returned[2].op = "update"
    /\ sc.returned[1].patch = sc.returned[2].patch
    /\ sc.returned[1].patch.hasName /\ ~sc.returned[1].patch.hasInstructions
    /\ sc.returned[3].op = "get"
    /\ sc.returned[3].row.assistantName = NameSam
    /\ sc.returned[3].row.systemInstructions = DefaultInstructionsDb

\* C28 (SpecEntities): a chat turn creates a conversation exactly if its
\* request named none.  No step of a turn whose request named a
\* conversation adds or removes a conversation row or changes a title, an
\* id or a createdAt; the only thing it changes is the updatedAt of the
\* conversation named.  A turn whose request named none adds one row, in
\* its first step, and no second one.  And no step of a turn changes a
\* task, a knowledge entry, or a message already stored; the messages it
\* adds are its own, under its own conversation.
C28_TurnFrame ==
    /\ [](\A t \in Turns :
            LET created == Cardinality({i \in DOMAIN tr[t].log :
                                           tr[t].log[i] = "create_conversation"})
            IN  /\ tr[t].param # 0 => created = 0
                /\ tr[t].param = 0 => created <= 1
                /\ (tr[t].param = 0 /\ tr[t].userMessage # 0) => created = 1)
    /\ [][\A t \in Turns :
            tr'[t] # tr[t] =>
                LET adds == Len(tr'[t].log) > Len(tr[t].log)
                            /\ tr'[t].log[Len(tr'[t].log)] = "create_conversation"
                IN  /\ tasks' = tasks
                    /\ businessProcesses' = businessProcesses
                    /\ Len(messages') >= Len(messages)
                    /\ \A i \in DOMAIN messages : messages'[i] = messages[i]
                    /\ \A i \in DOMAIN messages' \ DOMAIN messages :
                          /\ messages'[i].turn = t
                          /\ messages'[i].conversationId = tr[t].conversationId
                    /\ Len(conversations') = Len(conversations) + (IF adds THEN 1 ELSE 0)
                    /\ adds <=> (tr[t].pc = "createConversation" /\ tr[t].param = 0
                                 /\ tr'[t].pc = "insertUser")
                    /\ adds => /\ tr[t].log = << >>
                               /\ tr'[t].conversationId = Len(conversations')
                    /\ \A c \in DOMAIN conversations :
                          /\ conversations'[c].id = conversations[c].id
                          /\ conversations'[c].title = conversations[c].title
                          /\ conversations'[c].createdAt = conversations[c].createdAt
                          /\ conversations'[c].updatedAt # conversations[c].updatedAt =>
                                conversations[c].id = tr[t].conversationId
         ]_vars

\* a turn on the first conversation has answered 200 while a second
\* conversation, a task of the first conversation and a knowledge entry
\* were there: two conversations still, and the first has its title and a
\* later updatedAt
C28_Witness ==
    \E t \in Turns :
        /\ tr[t].param = 1 /\ tr[t].status = 200
        /\ Len(conversations) = 2
        /\ conversations[1].title = TitleOf(TextMailMeeting)
        /\ conversations[1].updatedAt = messages[tr[t].aiMessage].createdAt
        /\ conversations[2].updatedAt = conversations[2].createdAt
        /\ conversations[2].createdAt < messages[tr[t].userMessage].createdAt
        /\ \E row \in tasks : row.conversationId = 1
        /\ businessProcesses # {}

(***************************************************************************)
(* C29 (SpecChat): every text handed to onSendMessage is the trimmed       *)
(* input, is not blank, and is handed over only while isLoading is false   *)
(* and no earlier send of the page is pending; the input is empty after    *)
(* the send; at most one send of the page is pending at any time.          *)
(***************************************************************************)
PendingSends(c) == {i \in 1..Len(c.mutations) : c.mutations[i].status = "pending"}

C29_SendsGuarded ==
    /\ [](/\ Cardinality(PendingSends(chat)) <= 1
          /\ \A i \in 1..Len(chat.mutations) :
                /\ chat.mutations[i].content # Empty
                /\ trim(chat.mutations[i].content) = chat.mutations[i].content)
    /\ [][Len(chat'.mutations) # Len(chat.mutations) =>
            /\ trim(chat.input) # Empty
            /\ ~isLoading(chat)
            /\ PendingSends(chat) = {}
            /\ chat'.mutations =
                  Append(chat.mutations, [content |-> trim(chat.input), status |-> "pending"])
            /\ chat'.input = Empty]_vars

\* " hi " was sent as "hi" and answered; the input was then filled by speech
\* and sent as well, and that second send is pending
C29_Witness ==
    /\ Len(chat.mutations) = 2
    /\ chat.mutations[1] = [content |-> <<104, 105>>, status |-> "success"]
    /\ chat.mutations[2] = [content |-> <<111, 107>>, status |-> "pending"]
    /\ chat.input = Empty

(***************************************************************************)
(* C30 (SpecTurn): for every error the completion call threw,              *)
(* generateAIResponse returned exactly one of the three fallback strings:  *)
(* the rate-limit string exactly when the message holds '429' or 'rate     *)
(* limit', whether or not it also holds 'timeout' or 'ECONNREFUSED'; the   *)
(* connectivity string exactly when it holds 'timeout' or 'ECONNREFUSED'   *)
(* and no rate-limit marker; the generic string exactly when it holds no   *)
(* marker, which includes an error without a message.                      *)
(***************************************************************************)
C30_ClassificationTotalOrdered ==
    \A t \in Turns :
        tr[t].outcome.kind = "throw" =>
            LET error == tr[t].outcome
                returned == tr[t].aiContent
                rateMarker == /\ error.flag
                              /\ \E m \in {Mark429, MarkRateLimit} : Includes(error.text, m)
                connMarker == /\ error.flag
                              /\ \E m \in {MarkTimeout, MarkRefused} : Includes(error.text, m)
            IN  /\ Cardinality({s \in {RateLimitFallback, ConnectivityFallback,
                                        GenericFallback} : returned = s}) = 1
                /\ (returned = RateLimitFallback) <=> rateMarker
                /\ (returned = ConnectivityFallback) <=> (connMarker /\ ~rateMarker)
                /\ (returned = GenericFallback) <=> (~connMarker /\ ~rateMarker)
                /\ ~error.flag => returned = GenericFallback

\* an error whose message holds 'rate limit' and 'ECONNREFUSED' was
\* classified as a rate limit
C30_Witness ==
    \E t \in Turns :
        /\ tr[t].outcome = Throw(MsgBoth)
        /\ Includes(MsgBoth, MarkRateLimit) /\ Includes(MsgBoth, MarkRefused)
        /\ tr[t].aiContent = RateLimitFallback

====
